---- MODULE Spec2Model ----
(***************************************************************************)
(* Ingestion pipeline of yellowstone-vixen (chainstack-grpc-source crate   *)
(* and solana-stream-processor):                                           *)
(*   - the per-filter subscription tasks of ChainstackGrpcSource::connect, *)
(*   - the reconnect loop and the batching receive loop of                 *)
(*     DataProcessor::run_yellowstone_processor,                           *)
(*   - MongoHandler::store_parsed_data_batch,                              *)
(*   - the FilterManager behind the filter API,                            *)
(*   - RedisStreamManager / StreamWriter,                                  *)
(*   - UnifiedHandler::send_to_mongodb.                                    *)
(***************************************************************************)
EXTENDS Integers, Sequences, FiniteSets, TLC

(***************************************************************************)
(* Bounds of the model.                                                    *)
(***************************************************************************)
\* events the feed delivers in all, over every filter and session
MaxEvents == 3
\* ProcessingConfig.buffer_size (default 10000), scaled down
buffer_size == 2
\* ProcessingConfig.batch_size (default 100) and StreamWriter.batch_size
\* (1000), scaled down
batch_size == 2
\* the value of ReconnectConfig.max_attempts when it is not 0
MaxAttemptsCfg == 1
\* connect attempts in a row that are followed (the last one does not fail)
MaxAttempt == 2
\* calls of write_update / flush_all on the RedisStreamManager
MaxRedisCalls == 4
\* calls of UnifiedHandler::handle_instruction_data
MaxHandled == 5
\* ReconnectConfig::default(): initial_delay, max_delay, backoff_multiplier
DefaultInitialDelay == 1
DefaultMaxDelay == 60
backoff_multiplier == 2
\* the reconnect loop taken alone: the largest max_attempts, initial_delay
\* and max_delay configured, and the consecutive attempts followed
MaxAttemptsChoice == 3
MaxInitialDelay == 3
MaxDelayChoice == 5
MaxBackoffAttempts == 5
\* the largest usize of the model
UsizeMax == 15
\* filters in the table when it is listed
MaxTotal == 2
\* builder calls made on one source
MaxBuilderCalls == 4
\* period of the health check loop, in seconds
HealthLoopSecs == 30
\* the health check loop is followed up to this time
MaxHealthSecs == 120
\* measurements a history keeps (1000 in metrics.rs)
HistoryLimit == 2
\* measurements given to one history
MaxRecorded == 3
\* connections made to GET /events/stream
MaxConnects == 3
\* capacity of the channel of SseManager (1000 in web/server.rs)
SseBufferSize == 2
\* the sizes a configuration may give: 0..MaxSize
MaxSize == 2
\* StreamConfig.max_length of a stream that sets one
StreamMaxLength == 2
\* inner instructions of a transaction update
MaxInstr == 2
\* the values Uuid::new_v4() may give: 1..MaxUuid
MaxUuid == 2
\* cap of the message counters of the metrics
MaxMessages == 2
\* the readings of the wall clock: 1..MaxClock
MaxClock == 3
\* capacity of the broadcast channel (broadcast::channel(10000)), scaled
BusCapacity == 2
\* calls of StreamHandler::publish_data
MaxPublished == 4

\* ids of Filters.parsers_filters (one subscription task each)
FilterIds == {"f1", "f2"}
\* an item of the fan-in channel, Result<SubscribeUpdate, Status>:
\*   update       Ok(update)
\*   status_err   Err(status)
EventKinds == {"update", "status_err"}
\* what process_update makes of an Ok(update):
\*   account      Ok(Some(ParsedData::Account)),     collection <program>_accounts
\*   instruction  Ok(Some(ParsedData::Instruction)), collection <program>_instructions
\*   none         Ok(None) or Err: nothing is pushed to the batch
ParseResults == {"account", "instruction", "none"}
Collections == {"account", "instruction"}
NoItem == [filter_id |-> "none", seq |-> 0, kind |-> "none"]

VARIABLES
    \* ---- main.rs reconnect task
    max_attempts,   \* reconnect_config.max_attempts
    attempt,        \* attempt counter of the reconnect loop
    sup_pc,         \* "connect" | "join" | "sleep" | "stopped"
    initial_delay,  \* reconnect_config.initial_delay, seconds
    max_delay,      \* reconnect_config.max_delay, seconds
    delay,          \* the delay of the reconnect loop, seconds
    \* ---- lib.rs connect: one task per filter
    task_pc,        \* [FilterIds -> "idle" | "subscribe" | "next" | "send" | "ended"]
    held,           \* the item a task is sending
    client,         \* the gRPC client a task owns: the loop iteration that built it, "none" without
    request,        \* the filter ids of the Filters a task subscribes with
    feed_pos,       \* events the feed stream of a filter has yielded so far
    entered,        \* history: per filter, the seqs in the order they entered the channel
    \* ---- the fan-in mpsc channel and the receive loop of main.rs
    fanin,
    writer_pc,      \* "recv" | "returned"
    batch,
    store,          \* MongoDB: the documents in the order their insert took effect
    \* ---- filter_api.rs: FilterManager behind the filter API
    active_filters, \* FilterManager.active_filters: id -> filter, "absent" when no entry
    acked,          \* history: the last mutation of an id the API answered with success:
                    \* "create" (no entry before), "update" (entry replaced), "delete"
    api_method,     \* the method of the last request the API answered, "none" before any
    api_status,     \* the HTTP status of that answer, 0 before any
    now,            \* the wall clock chrono::Utc::now() reads
    resp_updated_at, \* filter.updated_at in the last answer to an upsert, 0 before any
    seen,           \* what the last reader found: id -> <<accounts, owners>>
    auth_token,     \* the token the server was given, or "none"
    api_header,     \* the Authorization header of the last request
    api_path,       \* the path of the last request, "none" before any
    \* ---- redis_stream.rs: RedisStreamManager with its StreamWriters
    batch_buffer,   \* StreamWriter.batch_buffer, per configured stream
    redis_stream,   \* the entries of each Redis stream, in XADD order
    redis_calls,    \* number of write_update / flush_all calls so far
    max_length,     \* StreamWriter.max_length per configured stream, 0 for None
    redis_ret,      \* the last call on the manager and the stream whose flush
                    \* made it return Err, or "none" when it returned Ok
    \* ---- unified_handler.rs: UnifiedHandler
    handled,        \* number of handle_instruction_data calls so far
    mongo_tasks,    \* the spawned insert_one tasks that have not completed
    coll_docs,      \* the documents of the collection, in the order of their insert
    \* ---- stream_handler.rs: the broadcast channel and its SSE subscribers
    bus_tail,       \* number of items the broadcast channel has accepted
    sub_pos,        \* per subscriber: the items it is past (-1: no receiver)
    sub_got,        \* per subscriber: the items sent to the client as events
    sub_lag,        \* per subscriber: the items its receiver reported as missed
    \* ---- main.rs process_update, one call of the receive loop in detail
    proc_in,        \* the update of the last call, NoUpdate before any
    proc_out,       \* what the call pushed to the batch and sent on the bus, NoRecord if nothing
    proc_prev,      \* <<proc_in, proc_out>> of the call before the last
    messages_processed, \* metrics.stream_messages_processed
    messages_errors, \* metrics.stream_messages_errors
    \* ---- filter_api.rs to_prefilter
    dyn_filter,     \* the DynamicFilter at hand
    prefilter,      \* the Prefilter made of it, NoPrefilter before
    tx_refs,        \* the accounts the last transaction of the feed references
    tx_admitted,    \* whether the feed admitted it under the prefilter
    \* ---- main.rs SolanaStreamProcessor::new
    app_config,     \* the AppConfig given to new
    new_pc,         \* "validate" | "connect" | "Ok" | "Err"
    created,        \* the components new has created so far
    \* ---- web/sse.rs
    sse_tail,       \* number of events the channel of SseManager accepted
    sse_pos,        \* number of the last event the client's receiver passed
    sse_waiting,    \* the waker of the client's task is with the channel
    sse_task,       \* "none" | "runnable" | "parked" | "ended"
    sse_out,        \* the events returned to the client's response
    sse_open,       \* a sender of the channel exists
    \* ---- metrics.rs
    stream_connections, \* the gauge stream_connections (AtomicU64)
    connected,      \* the clients of GET /events/stream whose stream lives
    history,        \* the three Vec<f64> of measurements
    recorded,       \* every measurement given to each history, in order
    \* ---- monitoring.rs HealthCheckManager
    health_now,     \* the time, in seconds since initialize_health_checks
    check_status,   \* HealthCheck.status of each check
    check_last,     \* HealthCheck.last_check of each check
    overall_status, \* HealthCheckManager.overall_status
    rounds,         \* calls of run_health_checks so far
    \* ---- lib.rs ChainstackGrpcSource (builder)
    source_config,  \* self.config: present or not, its api_key and headers
    custom_headers, \* self.custom_headers
    last_api_key,   \* the key of the most recent with_api_key, or "none"
    headers_called, \* with_custom_headers was called
    builder_calls,  \* calls made on the source so far
    x_token,        \* the key the last client was built with, or "none"
    \* ---- filter_api.rs list_filters (paging)
    page_query,     \* page, per_page, the table size and the build
    page_out,       \* whether the handler panicked, else the slice it took
    page_done       \* the handler has run

reconnectCfg == <<initial_delay, max_delay>>
connVars == <<client, request>>
pipeVars == <<max_attempts, attempt, sup_pc, task_pc, held, feed_pos, entered,
              fanin, writer_pc, batch, store, delay, reconnectCfg, connVars>>
apiVars == <<active_filters, acked, api_method, api_status, now, resp_updated_at, seen,
            auth_token, api_header, api_path>>
redisVars == <<batch_buffer, redis_stream, redis_calls, max_length, redis_ret>>
unifiedVars == <<handled, mongo_tasks, coll_docs>>

subVars == <<sub_pos, sub_got, sub_lag>>
procVars == <<proc_in, proc_out, proc_prev, messages_processed, messages_errors>>
\* the parts that stand beside the pipeline
prefVars == <<dyn_filter, prefilter, tx_refs, tx_admitted>>
startVars == <<app_config, new_pc, created>>
sseVars == <<sse_tail, sse_pos, sse_waiting, sse_task, sse_out, sse_open>>
metricsVars == <<stream_connections, connected, history, recorded>>
healthVars == <<health_now, check_status, check_last, overall_status, rounds>>
sourceVars == <<source_config, custom_headers, last_api_key, headers_called, builder_calls, x_token>>
pageVars == <<page_query, page_out, page_done>>
sideVars == <<procVars, prefVars, startVars, sseVars, metricsVars, healthVars, sourceVars, pageVars>>
busVars == <<bus_tail, subVars>>

vars == <<pipeVars, apiVars, redisVars, unifiedVars, busVars, sideVars>>
notPipeVars == <<apiVars, redisVars, unifiedVars, subVars, sideVars>>

(***************************************************************************)
(* Helpers                                                                 *)
(***************************************************************************)
RECURSIVE SelectKind(_, _)
\* the documents of one collection, in batch order (entry(..).or_default().push)
SelectKind(s, k) ==
    IF s = <<>> THEN <<>>
    ELSE IF Head(s).kind = k THEN <<Head(s)>> \o SelectKind(Tail(s), k)
         ELSE SelectKind(Tail(s), k)

RECURSIVE SelectFilter(_, _)
\* the seqs of the records of one filter, in the order of s
SelectFilter(s, f) ==
    IF s = <<>> THEN <<>>
    ELSE IF Head(s).filter_id = f THEN <<Head(s).seq>> \o SelectFilter(Tail(s), f)
         ELSE SelectFilter(Tail(s), f)

Increasing(s) == \A i \in 1..Len(s) : \A j \in 1..Len(s) : i < j => s[i] < s[j]

\* every sender of the channel is dropped: the reconnect task has ended (its tx)
\* and no subscription task lives (its tx clone)
SendersDropped ==
    /\ sup_pc = "stopped"
    /\ \A f \in FilterIds : task_pc[f] \in {"idle", "ended"}

\* events the feed has delivered so far
FeedTotal == feed_pos["f1"] + feed_pos["f2"]

(***************************************************************************)
(* lib.rs: ChainstackGrpcSource::connect, the task of one filter           *)
(***************************************************************************)
\* (mutant) the events are taken from the feed newest first
StreamNextSeqNewestFirst(pos) == MaxEvents - pos

\* stream.next() yields the events of the feed in feed order
StreamNextSeq(pos) == pos + 1

\* client.subscribe_with_request: Ok starts the loop, Err ends the task
TaskSubscribe(f) ==
    /\ task_pc[f] = "subscribe"
    /\ \E ok \in BOOLEAN :
         task_pc' = [task_pc EXCEPT ![f] = IF ok THEN "next" ELSE "ended"]
    /\ UNCHANGED <<max_attempts, attempt, sup_pc, held, feed_pos, entered,
                   fanin, writer_pc, batch, store>>
    /\ UNCHANGED <<bus_tail, delay, reconnectCfg, connVars, notPipeVars>>

\* while let Some(update) = stream.next().await: Ok(update) and Err(e) are
\* both sent on tx
TaskNext(f) ==
    /\ task_pc[f] = "next"
    /\ FeedTotal < MaxEvents
    /\ \E k \in EventKinds :
         held' = [held EXCEPT ![f] =
                    [filter_id |-> f, seq |-> StreamNextSeq(feed_pos[f]), kind |-> k]]
    /\ feed_pos' = [feed_pos EXCEPT ![f] = @ + 1]
    /\ task_pc' = [task_pc EXCEPT ![f] = "send"]
    /\ UNCHANGED <<max_attempts, attempt, sup_pc, entered,
                   fanin, writer_pc, batch, store>>
    /\ UNCHANGED <<bus_tail, delay, reconnectCfg, connVars, notPipeVars>>

\* stream.next() gives None: the session ended, the task returns
TaskStreamEnd(f) ==
    /\ task_pc[f] = "next"
    /\ task_pc' = [task_pc EXCEPT ![f] = "ended"]
    /\ UNCHANGED <<max_attempts, attempt, sup_pc, held, feed_pos, entered,
                   fanin, writer_pc, batch, store>>
    /\ UNCHANGED <<bus_tail, delay, reconnectCfg, connVars, notPipeVars>>

\* (mutant) try_send in place of send().await: a full channel drops the item
TaskSendTry(f) ==
    /\ task_pc[f] = "send"
    /\ IF Len(fanin) < buffer_size
       THEN /\ fanin' = Append(fanin, held[f])
            /\ entered' = [entered EXCEPT ![f] = Append(@, held[f].seq)]
       ELSE UNCHANGED <<fanin, entered>>
    /\ task_pc' = [task_pc EXCEPT ![f] = "next"]
    /\ held' = [held EXCEPT ![f] = NoItem]
    /\ UNCHANGED <<max_attempts, attempt, sup_pc, feed_pos,
                   writer_pc, batch, store>>
    /\ UNCHANGED <<bus_tail, delay, reconnectCfg, connVars, notPipeVars>>

\* tx.send(..).await on the bounded channel: completes when there is room,
\* breaks the loop when the receiver is gone, suspends otherwise
TaskSend(f) ==
    /\ task_pc[f] = "send"
    /\ \/ /\ writer_pc # "returned"
          /\ Len(fanin) < buffer_size
          /\ fanin' = Append(fanin, held[f])
          /\ entered' = [entered EXCEPT ![f] = Append(@, held[f].seq)]
          /\ task_pc' = [task_pc EXCEPT ![f] = "next"]
       \/ /\ writer_pc = "returned"
          /\ task_pc' = [task_pc EXCEPT ![f] = "ended"]
          /\ UNCHANGED <<fanin, entered>>
    /\ held' = [held EXCEPT ![f] = NoItem]
    /\ UNCHANGED <<max_attempts, attempt, sup_pc, feed_pos,
                   writer_pc, batch, store>>
    /\ UNCHANGED <<bus_tail, delay, reconnectCfg, connVars, notPipeVars>>

(***************************************************************************)
(* main.rs: the reconnect task around source.connect(tx.clone())           *)
(***************************************************************************)
\* (mutant) one attempt too many before the loop gives up
ReconnectStopsLate(limit, n) == limit > 0 /\ n > limit

\* reconnect_config.max_attempts > 0 && attempt >= reconnect_config.max_attempts
ReconnectStops(limit, n) == limit > 0 /\ n >= limit

\* min(delay * backoff_multiplier, max_delay)
Backoff(d, cap) == IF d * backoff_multiplier < cap THEN d * backoff_multiplier ELSE cap

\* (mutant) every task subscribes with the whole filter set
TaskFilterAll(f) == FilterIds

\* Filters::new(HashMap::from([(filter_id, prefilter)])): the Filters of a
\* task hold its own entry of parsers_filters only
TaskFilter(f) == {f}

RECURSIVE AppendHeld(_, _)
\* the channel after the tasks of S have each completed their send
AppendHeld(q, S) ==
    IF S = {} THEN q
    ELSE LET g == CHOOSE x \in S : TRUE
         IN  AppendHeld(Append(q, held[g]), S \ {g})

\* the sets of tasks that complete their send after the JoinSet was dropped.
\* The drop only marks a task cancelled: a task that is being polled on
\* another thread of the runtime runs on to its next await, and a send that
\* finds room in the channel completes without one
LateSenders ==
    {S \in SUBSET {g \in FilterIds : task_pc[g] = "send"} :
        /\ S # {} => writer_pc # "returned"
        /\ Len(fanin) + Cardinality(S) <= buffer_size}

\* connect: build_grpc_client for the next filter, then spawn its task with
\* that client and the filter's own Filters.
\* A build error returns from connect by `?`: the JoinSet is dropped, which
\* aborts the tasks spawned so far; the reconnect loop then stops or sleeps.
SupBuild(f) ==
    /\ sup_pc = "connect"
    /\ task_pc[f] = "idle"
    /\ \/ /\ task_pc' = [task_pc EXCEPT ![f] = "subscribe"]
          /\ client' = [client EXCEPT ![f] = f]
          /\ request' = [request EXCEPT ![f] = TaskFilter(f)]
          /\ sup_pc' = IF \A g \in FilterIds \ {f} : task_pc[g] # "idle"
                       THEN "join" ELSE "connect"
          /\ UNCHANGED <<held, attempt, fanin, entered>>
       \/ /\ attempt < MaxAttempt
          /\ task_pc' = [g \in FilterIds |-> "idle"]
          /\ client' = [g \in FilterIds |-> "none"]
          /\ request' = [g \in FilterIds |-> {}]
          /\ held' = [g \in FilterIds |-> NoItem]
          /\ \E late \in LateSenders :
                /\ fanin' = AppendHeld(fanin, late)
                /\ entered' = [g \in FilterIds |->
                                 IF g \in late THEN Append(entered[g], held[g].seq)
                                 ELSE entered[g]]
          /\ sup_pc' = IF ReconnectStops(max_attempts, attempt)
                       THEN "stopped" ELSE "sleep"
          /\ UNCHANGED attempt
    /\ UNCHANGED <<max_attempts, feed_pos, writer_pc, batch, store>>
    /\ UNCHANGED <<bus_tail, delay, reconnectCfg, notPipeVars>>

\* tasks_set.join_all() returns once every task has ended; connect gives
\* Ok(()), the loop resets attempt and delay and connects again (attempt += 1)
SupJoin ==
    /\ sup_pc = "join"
    /\ \A f \in FilterIds : task_pc[f] = "ended"
    /\ task_pc' = [f \in FilterIds |-> "idle"]
    /\ client' = [f \in FilterIds |-> "none"]
    /\ request' = [f \in FilterIds |-> {}]
    /\ attempt' = 1
    /\ delay' = initial_delay
    /\ sup_pc' = "connect"
    /\ UNCHANGED <<max_attempts, held, feed_pos, entered,
                   fanin, writer_pc, batch, store>>
    /\ UNCHANGED <<bus_tail, reconnectCfg, notPipeVars>>

\* sleep(delay) is over: the delay is multiplied and capped; next
\* iteration, attempt += 1
SupWake ==
    /\ sup_pc = "sleep"
    /\ attempt' = attempt + 1
    /\ delay' = Backoff(delay, max_delay)
    /\ sup_pc' = "connect"
    /\ UNCHANGED <<max_attempts, task_pc, held, feed_pos, entered,
                   fanin, writer_pc, batch, store>>
    /\ UNCHANGED <<bus_tail, reconnectCfg, connVars, notPipeVars>>

\* SolanaStreamProcessor::run: ctrl_c wins the select!, run returns and
\* main with it; the runtime is dropped, which cancels the reconnect task,
\* the subscription tasks and the receive loop where they stand. The channel
\* and the batch are dropped with what they hold.
Shutdown ==
    /\ writer_pc # "exited"
    /\ writer_pc' = "exited"
    /\ sup_pc' = "exited"
    /\ task_pc' = [f \in FilterIds |-> "exited"]
    /\ UNCHANGED <<max_attempts, attempt, held, feed_pos, entered,
                   fanin, batch, store>>
    /\ UNCHANGED <<bus_tail, delay, reconnectCfg, connVars, notPipeVars>>

(***************************************************************************)
(* main.rs: the reconnect loop taken alone, source.connect as one step     *)
(***************************************************************************)
\* source_clone.connect(tx.clone()) returns Err
ConnectErr ==
    /\ sup_pc = "connect"
    /\ attempt < MaxBackoffAttempts
    /\ sup_pc' = IF ReconnectStops(max_attempts, attempt) THEN "stopped" ELSE "sleep"
    /\ UNCHANGED <<max_attempts, attempt, task_pc, held, feed_pos, entered,
                   fanin, writer_pc, batch, store>>
    /\ UNCHANGED <<bus_tail, delay, reconnectCfg, connVars, notPipeVars>>

\* source_clone.connect(tx.clone()) returns Ok: attempt and delay are reset
ConnectOk ==
    /\ sup_pc = "connect"
    /\ attempt' = 1
    /\ delay' = initial_delay
    /\ UNCHANGED <<max_attempts, sup_pc, task_pc, held, feed_pos, entered,
                   fanin, writer_pc, batch, store>>
    /\ UNCHANGED <<bus_tail, reconnectCfg, connVars, notPipeVars>>

(***************************************************************************)
(* main.rs: the receive loop of run_yellowstone_processor                  *)
(***************************************************************************)
\* batch.len() >= batch_size || last_batch_time.elapsed() >= batch_timeout
ShouldFlush(b, timeout_elapsed) == Len(b) >= batch_size \/ timeout_elapsed

\* MongoHandler::store_parsed_data_batch: the documents are grouped by
\* collection in a HashMap, then one insert_many per collection in the map's
\* iteration order; the first failing insert_many returns the error
StoreParsedDataBatch(b, first, ok1, ok2) ==
    LET second == CHOOSE k \in Collections : k # first
        g1 == SelectKind(b, first)
        g2 == SelectKind(b, second)
    IN IF g1 # <<>> /\ ~ok1 THEN <<>>
       ELSE IF g2 # <<>> /\ ~ok2 THEN g1
       ELSE g1 \o g2

\* the results of store_parsed_data_batch(b): what reaches the store
StoreResults(b) ==
    {StoreParsedDataBatch(b, first, ok1, ok2) :
        first \in Collections, ok1 \in BOOLEAN, ok2 \in BOOLEAN}

\* process_update(r) for an Ok item of the channel: the batch after the push,
\* for each result of the parse
Pushed(r) ==
    {IF parsed \in Collections THEN Append(batch, [r EXCEPT !.kind = parsed]) ELSE batch :
        parsed \in ParseResults}

\* the end of an iteration for an Ok item, the batch being b: <<batch, store>>
\* after the flush when should_flush && !batch.is_empty() (the batch is
\* cleared whatever the result of the store), else unchanged
AfterFlushCheck(b) ==
    {<<b, store>> : timeout_elapsed \in {t \in BOOLEAN : ~(ShouldFlush(b, t) /\ b # <<>>)}}
    \cup {<<<<>>, store \o stored>> :
            stored \in {x \in StoreResults(b) :
                          \E t \in BOOLEAN : ShouldFlush(b, t) /\ b # <<>>}}

(***************************************************************************)
(* stream_handler.rs: the broadcast channel of StreamHandler. Its items   *)
(* are numbered 1, 2, .. in the order they were accepted; the channel      *)
(* retains the last BusCapacity of them.                                   *)
(***************************************************************************)
\* the connections to GET /events/stream
Subs == {"s1", "s2"}

\* broadcast_tx.receiver_count()
ReceiverCount(pos) == Cardinality({s \in Subs : pos[s] >= 0})

\* broadcast_tx.send(data): never waits; with no receiver the item is given
\* back in an Err and the channel is unchanged
BusSend(tail, pos) == IF ReceiverCount(pos) > 0 THEN tail + 1 ELSE tail

\* (mutant) a receiver that lost items is moved on without a Lagged error
BusRecvSilent(tail, pos) ==
    IF tail - pos > BusCapacity
    THEN [lagged |-> 0, next |-> tail - BusCapacity]
    ELSE [lagged |-> 0, next |-> pos + 1]

\* the receiver side of the channel, polled by BroadcastStream: a receiver
\* more than the capacity behind gets Lagged(n) and is moved to the oldest
\* retained item; otherwise it gets its next item
BusRecv(tail, pos) ==
    IF tail - pos > BusCapacity
    THEN [lagged |-> tail - BusCapacity - pos, next |-> tail - BusCapacity]
    ELSE [lagged |-> 0, next |-> pos + 1]

\* one iteration of the receive loop. rx.recv() gives Some(result): an Err is
\* logged; an Ok is processed, pushed to the batch when it parses, and then
\* the flush condition is evaluated
WriterRecv ==
    /\ writer_pc = "recv"
    /\ fanin # <<>>
    /\ fanin' = Tail(fanin)
    /\ LET r == Head(fanin)
       IN IF r.kind = "update"
          THEN \E b \in Pushed(r) : \E o \in AfterFlushCheck(b) :
                 /\ batch' = o[1]
                 /\ store' = o[2]
                 /\ bus_tail' = IF b # batch THEN BusSend(bus_tail, sub_pos) ELSE bus_tail
          ELSE UNCHANGED <<batch, store, bus_tail>>
    /\ UNCHANGED <<max_attempts, attempt, sup_pc, task_pc, held, feed_pos,
                   entered, writer_pc>>
    /\ UNCHANGED <<delay, reconnectCfg, connVars, notPipeVars>>

\* a receive loop that leaves as soon as it finds the channel empty, as
\* with try_recv: it does not wait for the senders
WriterReturnOnEmpty ==
    /\ writer_pc = "recv"
    /\ fanin = <<>>
    /\ writer_pc' = "returned"
    /\ UNCHANGED <<max_attempts, attempt, sup_pc, task_pc, held, feed_pos,
                   entered, fanin, batch, store>>
    /\ UNCHANGED <<bus_tail, delay, reconnectCfg, connVars, notPipeVars>>

\* rx.recv() gives None (every sender dropped, channel empty): the loop ends
\* and the function returns Ok(())
WriterReturn ==
    /\ writer_pc = "recv"
    /\ fanin = <<>>
    /\ SendersDropped
    /\ writer_pc' = "returned"
    /\ UNCHANGED <<max_attempts, attempt, sup_pc, task_pc, held, feed_pos,
                   entered, fanin, batch, store>>
    /\ UNCHANGED <<bus_tail, delay, reconnectCfg, connVars, notPipeVars>>

(***************************************************************************)
(* filter_api.rs: the routes of FilterApiServer over FilterManager         *)
(***************************************************************************)
\* a DynamicFilter, by what validate_filter makes of it: P1 and P2 are two
\* valid predicates, "empty" has no account, no owner and no transaction
\* account at all, "invalid" holds a string that is no Pubkey
Predicates == {"P1", "P2", "empty", "invalid"}

\* account_filter.accounts and account_filter.owners of a table entry, as a
\* reader finds them
Fields(p) ==
    CASE p = "P1" -> <<"A1", "O1">>
      [] p = "P2" -> <<"A2", "O2">>
      [] p = "empty" -> <<"none", "none">>
      [] OTHER -> <<"absent", "absent">>

\* self.filters of the source (set_filters_unchecked, before connect): connect
\* clones it and the task of each id subscribes with its own entry. No code
\* of FilterManager reaches it.
SourceFilters == [f \in FilterIds |-> "P1"]

\* FilterManager::validate_filter: the id is not empty and every listed
\* account parses as a Pubkey
ValidateFilter(id, p) == id # "" /\ p # "invalid"

\* FilterManager::add_filter / update_filter: validate, insert, notify the
\* callbacks. update_callbacks is created empty and nothing ever pushes to it,
\* so notify_callbacks reaches nobody.
UpsertFilter(table, id, p) ==
    IF ValidateFilter(id, p) THEN [table EXCEPT ![id] = p] ELSE table

\* what a successful add_filter / update_filter did to the table
Upserted(table, id) == IF table[id] = "absent" THEN "create" ELSE "update"

\* the routes of create_routes, in the order the or-chain tries them
Routes ==
    <<"health", "list_filters", "get_filter", "create_filter",
      "update_filter", "delete_filter", "list_templates">>

\* the method filter of a route
RouteMethod(r) ==
    CASE r = "create_filter" -> "POST"
      [] r = "update_filter" -> "PUT"
      [] r = "delete_filter" -> "DELETE"
      [] OTHER -> "GET"

\* the path filter of a route against "/filters" or "/filters/{id}":
\* warp::path("filters") matches the first segment and asks for no end,
\* warp::path!("filters" / String) asks for exactly two segments
PathMatches(r, path) ==
    CASE r \in {"list_filters", "create_filter"} -> TRUE
      [] r \in {"get_filter", "update_filter", "delete_filter"} ->
            path = "/filters/{id}"
      [] OTHER -> FALSE

\* the route's filters let the request through to its handler
Passes(r, method, path) == PathMatches(r, path) /\ method = RouteMethod(r)

\* the rejection of a route, as the set of its causes: a path that does not
\* match is not_found, which carries no cause; a wrong method is
\* MethodNotAllowed; the handler, when reached, rejects with handlerRej
RouteRejection(r, method, path, handlerRej) ==
    IF ~PathMatches(r, path) THEN {}
    ELSE IF method # RouteMethod(r) THEN {"MethodNotAllowed"}
    ELSE handlerRej

\* the or-chain when no route answers: the rejections are combined, and
\* combining drops not_found beside any other cause
Rejected(method, path, handlerRej) ==
    UNION {RouteRejection(Routes[i], method, path, handlerRej) :
             i \in DOMAIN Routes}

\* the route whose handler a request reaches first, "none" when no route
\* lets it through
Serving(method, path) ==
    LET S == {i \in DOMAIN Routes : Passes(Routes[i], method, path)}
    IN  IF S = {} THEN "none"
        ELSE Routes[CHOOSE i \in S : \A j \in S : i <= j]

\* handle_rejection
HandleRejection(rej) ==
    IF rej = {} THEN 404
    ELSE IF "UnauthorizedError" \in rej THEN 401
    ELSE IF "InternalServerError" \in rej THEN 500
    ELSE 500

\* the Authorization header of a request: none, "Bearer <token>" with the
\* configured token, another string, or bytes that are no visible ASCII
\* (which header::optional::<String> refuses with its own rejection)
AuthHeaders == {"absent", "exact", "other", "opaque"}

\* the headers the clients of a server send: none when it asks for no token
RequestHeaders == IF auth_token = "none" THEN {"absent"} ELSE AuthHeaders

\* auth_filter: the rejection it gives, {} when it lets the request through
AuthRejection(h) ==
    IF h = "opaque" THEN {"InvalidHeader"}
    ELSE IF auth_token = "none" THEN {}
    ELSE IF h = "exact" THEN {}
    ELSE {"UnauthorizedError"}

\* POST /filters: stamps created_at and updated_at, add_filter, answers the
\* filter; a failed add_filter rejects with InternalServerError
ApiCreate(id, p) ==
    /\ api_method' = "POST"
    /\ api_path' = "/filters"
    /\ \E h \in RequestHeaders :
         /\ api_header' = h
         /\ IF AuthRejection(h) = {}
            THEN /\ active_filters' = UpsertFilter(active_filters, id, p)
                 /\ acked' = IF ValidateFilter(id, p)
                             THEN [acked EXCEPT ![id] = Upserted(active_filters, id)]
                             ELSE acked
                 /\ api_status' = IF ValidateFilter(id, p) THEN 200
                                  ELSE HandleRejection(
                                         Rejected("POST", "/filters", {"InternalServerError"}))
                 /\ resp_updated_at' = IF ValidateFilter(id, p) THEN now ELSE resp_updated_at
            ELSE /\ api_status' = HandleRejection(
                                    Rejected("POST", "/filters", AuthRejection(h)))
                 /\ UNCHANGED <<active_filters, acked, resp_updated_at>>
    /\ UNCHANGED <<now, seen, auth_token>>
    /\ UNCHANGED <<pipeVars, redisVars, unifiedVars, sideVars, busVars>>

\* PUT /filters/{id}: stamps updated_at, update_filter, answers the filter
ApiUpdate(id, p) ==
    /\ api_method' = "PUT"
    /\ api_path' = "/filters/{id}"
    /\ \E h \in RequestHeaders :
         /\ api_header' = h
         /\ IF AuthRejection(h) = {}
            THEN /\ active_filters' = UpsertFilter(active_filters, id, p)
                 /\ acked' = IF ValidateFilter(id, p)
                             THEN [acked EXCEPT ![id] = Upserted(active_filters, id)]
                             ELSE acked
                 /\ api_status' = IF ValidateFilter(id, p) THEN 200
                                  ELSE HandleRejection(
                                         Rejected("PUT", "/filters/{id}", {"InternalServerError"}))
                 /\ resp_updated_at' = IF ValidateFilter(id, p) THEN now ELSE resp_updated_at
            ELSE /\ api_status' = HandleRejection(
                                    Rejected("PUT", "/filters/{id}", AuthRejection(h)))
                 /\ UNCHANGED <<active_filters, acked, resp_updated_at>>
    /\ UNCHANGED <<now, seen, auth_token>>
    /\ UNCHANGED <<pipeVars, redisVars, unifiedVars, sideVars, busVars>>

\* FilterManager::remove_filter: logs, "TODO: Notify about filter removal"
RemoveFilter(table, id) == table

\* DELETE /filters/{id}: removes the id and answers 204 when it was in the
\* table, rejects with not_found otherwise
ApiDelete(id) ==
    /\ api_method' = "DELETE"
    /\ api_path' = "/filters/{id}"
    /\ \E h \in RequestHeaders :
         /\ api_header' = h
         /\ IF AuthRejection(h) # {}
            THEN /\ api_status' = HandleRejection(
                                    Rejected("DELETE", "/filters/{id}", AuthRejection(h)))
                 /\ UNCHANGED <<active_filters, acked>>
            ELSE IF active_filters[id] # "absent"
            THEN /\ active_filters' =
                      RemoveFilter([active_filters EXCEPT ![id] = "absent"], id)
                 /\ acked' = [acked EXCEPT ![id] = "delete"]
                 /\ api_status' = 204
            ELSE /\ api_status' =
                      HandleRejection(Rejected("DELETE", "/filters/{id}", {}))
                 /\ UNCHANGED <<active_filters, acked>>
    /\ UNCHANGED <<now, resp_updated_at, seen, auth_token>>
    /\ UNCHANGED <<pipeVars, redisVars, unifiedVars, sideVars, busVars>>

\* a reader that takes no lock: the accounts of every entry at one moment,
\* their owners at a later one
ApiListFiltersTorn ==
    /\ \/ seen' = [f \in FilterIds |->
                     <<Fields(active_filters[f])[1], "pending">>]
       \/ /\ \E f \in FilterIds : seen[f][2] = "pending"
          /\ seen' = [f \in FilterIds |->
                        <<seen[f][1], Fields(active_filters[f])[2]>>]
    /\ api_method' = "GET"
    /\ api_status' = 200
    /\ UNCHANGED <<active_filters, acked, now, resp_updated_at>>
    /\ UNCHANGED <<auth_token, api_header, api_path>>
    /\ UNCHANGED <<pipeVars, redisVars, unifiedVars, sideVars, busVars>>

\* GET /filters, and GET /filters/{id} as well: list_filters stands before
\* get_filter in the or-chain and its path filter asks for no end. The
\* handler clones the entries under the read lock; the default page (20 per
\* page) holds them all.
ApiListFilters ==
    /\ Serving("GET", "/filters/{id}") = "list_filters"
    /\ api_method' = "GET"
    /\ \E path \in {"/filters", "/filters/{id}"} : api_path' = path
    /\ \E h \in RequestHeaders :
         /\ api_header' = h
         /\ IF AuthRejection(h) = {}
            THEN /\ seen' = [f \in FilterIds |-> Fields(active_filters[f])]
                 /\ api_status' = 200
            ELSE /\ api_status' = HandleRejection(
                                    Rejected("GET", "/filters", AuthRejection(h)))
                 /\ UNCHANGED seen
    /\ UNCHANGED <<active_filters, acked, now, resp_updated_at, auth_token>>
    /\ UNCHANGED <<pipeVars, redisVars, unifiedVars, sideVars, busVars>>

\* GET /templates: the templates of the manager, behind auth_filter
ApiListTemplates ==
    /\ api_method' = "GET"
    /\ api_path' = "/templates"
    /\ \E h \in RequestHeaders :
         /\ api_header' = h
         /\ api_status' = IF AuthRejection(h) = {} THEN 200
                          ELSE HandleRejection(AuthRejection(h))
    /\ UNCHANGED <<active_filters, acked, now, resp_updated_at, seen, auth_token>>
    /\ UNCHANGED <<pipeVars, redisVars, unifiedVars, sideVars, busVars>>

\* GET /health: the first route of the chain, with no auth_filter
ApiHealth ==
    /\ api_method' = "GET"
    /\ api_path' = "/health"
    /\ \E h \in RequestHeaders : api_header' = h
    /\ api_status' = 200
    /\ UNCHANGED <<active_filters, acked, now, resp_updated_at, seen, auth_token>>
    /\ UNCHANGED <<pipeVars, redisVars, unifiedVars, sideVars, busVars>>

\* the wall clock chrono::Utc::now() reads: it is the system's real-time
\* clock, which an adjustment sets forward or back
ClockSet(t) ==
    /\ t # now
    /\ now' = t
    /\ UNCHANGED <<active_filters, acked, api_method, api_status, resp_updated_at, seen>>
    /\ UNCHANGED <<auth_token, api_header, api_path>>
    /\ UNCHANGED <<pipeVars, redisVars, unifiedVars, sideVars, busVars>>

(***************************************************************************)
(* redis_stream.rs: RedisStreamManager and its StreamWriters               *)
(***************************************************************************)
\* update_oneof of a SubscribeUpdate, as extract_stream_data names it
UpdateTypes == {"account", "transaction", "block", "block_meta", "unknown"}
\* the keys config.streams may hold a StreamWriter for
StreamNames == {"accounts", "transactions", "blocks"}

\* RedisStreamManager::determine_stream_name
DetermineStreamName(t) ==
    CASE t = "account" -> "accounts"
      [] t = "transaction" -> "transactions"
      [] t \in {"block", "block_meta"} -> "blocks"
      [] OTHER -> "unknown"

\* StreamWriter::should_flush
WriterShouldFlush(buf) == Len(buf) >= batch_size

\* the outcomes of flush_stream for a non-empty buffer: "ok", or an error
\* (get_async_connection or the pipeline's query_async) after the first k XADD
\* of the non-atomic pipeline took effect (all of them when the reply was lost)
FlushOutcomes(buf) ==
    {[ok |-> TRUE, k |-> Len(buf)]} \cup {[ok |-> FALSE, k |-> k] : k \in 0..Len(buf)}

\* (mutant) the buffer is cleared before the pipeline is sent
BufferAfterFlushCleared(buf, o) == <<>>

\* StreamWriter::flush_to_redis: the buffer is cleared on success only
BufferAfterFlush(buf, o) == IF o.ok THEN <<>> ELSE buf

\* RedisStreamManager::write_update: add_entry on the writer of the update's
\* stream, then flush_stream when should_flush; no writer: a warning and Ok(())
WriteUpdate(t) ==
    /\ redis_calls < MaxRedisCalls
    /\ redis_calls' = redis_calls + 1
    /\ LET name == DetermineStreamName(t)
       IN IF name \in DOMAIN batch_buffer
          THEN LET entry == [n |-> redis_calls + 1, update_type |-> t,
                             maxlen |-> max_length[name]]
                   buf == Append(batch_buffer[name], entry)
               IN IF WriterShouldFlush(buf)
                  THEN \E o \in FlushOutcomes(buf) :
                         /\ redis_stream' = [redis_stream EXCEPT
                                               ![name] = @ \o SubSeq(buf, 1, o.k)]
                         /\ batch_buffer' = [batch_buffer EXCEPT
                                               ![name] = BufferAfterFlush(buf, o)]
                         /\ redis_ret' = [op |-> "write_update",
                                          failed |-> IF o.ok THEN "none" ELSE name]
                  ELSE /\ batch_buffer' = [batch_buffer EXCEPT ![name] = buf]
                       /\ redis_ret' = [op |-> "write_update", failed |-> "none"]
                       /\ UNCHANGED redis_stream
          ELSE /\ redis_ret' = [op |-> "write_update", failed |-> "none"]
               /\ UNCHANGED <<batch_buffer, redis_stream>>
    /\ UNCHANGED max_length
    /\ UNCHANGED <<pipeVars, apiVars, unifiedVars, sideVars, busVars>>

RECURSIVE FlushStreams(_, _, _, _)
\* flush_all: flush_stream for each key of stream_writers in turn (order),
\* each with its outcome; the first error returns. Gives <<buffers, streams,
\* the stream whose flush failed or "none">>.
FlushStreams(order, outcome, bufs, streams) ==
    IF order = <<>> THEN <<bufs, streams, "none">>
    ELSE LET name == Head(order)
             buf == bufs[name]
             o == outcome[name]
         IN IF buf = <<>>
            THEN FlushStreams(Tail(order), outcome, bufs, streams)
            ELSE LET streams2 == [streams EXCEPT ![name] = @ \o SubSeq(buf, 1, o.k)]
                     bufs2 == [bufs EXCEPT ![name] = BufferAfterFlush(buf, o)]
                 IN IF o.ok
                    THEN FlushStreams(Tail(order), outcome, bufs2, streams2)
                    ELSE <<bufs2, streams2, name>>

\* the orders in which a HashMap with the keys S may be iterated
Orders(S) ==
    {q \in [1..Cardinality(S) -> S] : \A i, j \in 1..Cardinality(S) : i # j => q[i] # q[j]}

\* RedisStreamManager::flush_all
FlushAll ==
    /\ redis_calls < MaxRedisCalls
    /\ redis_calls' = redis_calls + 1
    /\ \E order \in Orders(DOMAIN batch_buffer) :
       \E outcome \in {c \in [DOMAIN batch_buffer -> [ok : BOOLEAN, k : 0..MaxRedisCalls]] :
                         \A name \in DOMAIN batch_buffer :
                            \/ c[name] \in FlushOutcomes(batch_buffer[name])
                            \/ batch_buffer[name] = <<>> /\ c[name] = [ok |-> TRUE, k |-> 0]} :
         LET r == FlushStreams(order, outcome, batch_buffer, redis_stream)
         IN /\ batch_buffer' = r[1]
            /\ redis_stream' = r[2]
            /\ redis_ret' = [op |-> "flush_all", failed |-> r[3]]
    /\ UNCHANGED max_length
    /\ UNCHANGED <<pipeVars, apiVars, unifiedVars, sideVars, busVars>>

(***************************************************************************)
(* unified_handler.rs: UnifiedHandler                                      *)
(***************************************************************************)
\* handle_instruction_data: should_process_data is true for every program;
\* send_to_mongodb spawns one task per call for the insert_one and returns
HandleInstructionData ==
    /\ handled < MaxHandled
    /\ handled' = handled + 1
    /\ mongo_tasks' = mongo_tasks \cup {handled + 1}
    /\ UNCHANGED coll_docs
    /\ UNCHANGED <<pipeVars, apiVars, redisVars, busVars, sideVars>>

\* a spawned task completes its collection.insert_one: Ok or Err
MongoInsertOne(t) ==
    /\ t \in mongo_tasks
    /\ mongo_tasks' = mongo_tasks \ {t}
    /\ \E ok \in BOOLEAN : coll_docs' = IF ok THEN Append(coll_docs, t) ELSE coll_docs
    /\ UNCHANGED handled
    /\ UNCHANGED <<pipeVars, apiVars, redisVars, busVars, sideVars>>

(***************************************************************************)
(* stream_handler.rs: publish_data and the SSE streams                     *)
(***************************************************************************)
\* (mutant) a publisher that waits until every receiver has room
PublishDataBackpressure ==
    /\ bus_tail < MaxPublished
    /\ \A s \in Subs : sub_pos[s] >= 0 => bus_tail - sub_pos[s] < BusCapacity
    /\ bus_tail' = BusSend(bus_tail, sub_pos)
    /\ UNCHANGED <<pipeVars, apiVars, redisVars, unifiedVars, sideVars, subVars>>

\* StreamHandler::publish_data: send when receiver_count() > 0
PublishData ==
    /\ bus_tail < MaxPublished
    /\ bus_tail' = BusSend(bus_tail, sub_pos)
    /\ UNCHANGED <<pipeVars, apiVars, redisVars, unifiedVars, sideVars, subVars>>

\* stream_events: broadcast_tx.subscribe(); the receiver starts at the tail
SubSubscribe(s) ==
    /\ sub_pos[s] = -1
    /\ sub_pos' = [sub_pos EXCEPT ![s] = bus_tail]
    /\ sub_got' = [sub_got EXCEPT ![s] = <<>>]
    /\ sub_lag' = [sub_lag EXCEPT ![s] = 0]
    /\ UNCHANGED <<pipeVars, apiVars, redisVars, unifiedVars, sideVars, bus_tail>>

\* the stream of stream_events is polled and the receiver has something:
\* Ok(data) becomes an event unless its serialization fails; Err(Lagged) is
\* logged and gives no event
SubRecv(s) ==
    /\ sub_pos[s] >= 0
    /\ sub_pos[s] < bus_tail
    /\ LET r == BusRecv(bus_tail, sub_pos[s])
       IN /\ sub_pos' = [sub_pos EXCEPT ![s] = r.next]
          /\ sub_lag' = [sub_lag EXCEPT ![s] = @ + r.lagged]
          /\ IF r.lagged > 0
             THEN UNCHANGED sub_got
             ELSE \E json_ok \in BOOLEAN :
                    sub_got' = IF json_ok THEN [sub_got EXCEPT ![s] = Append(@, r.next)]
                               ELSE sub_got
    /\ UNCHANGED <<pipeVars, apiVars, redisVars, unifiedVars, sideVars, bus_tail>>

\* the client goes away: the stream and its receiver are dropped
SubDrop(s) ==
    /\ sub_pos[s] >= 0
    /\ sub_pos' = [sub_pos EXCEPT ![s] = -1]
    /\ UNCHANGED <<pipeVars, apiVars, redisVars, unifiedVars, sideVars, bus_tail, sub_got, sub_lag>>

(***************************************************************************)
(* main.rs process_update and parsers/proto_parsers.rs UnifiedParser: what *)
(* one iteration of the receive loop makes of an Ok(update). (WriterRecv   *)
(* keeps of it only whether a record was pushed.)                          *)
(***************************************************************************)
\* update_oneof of a SubscribeUpdate
UpdateKinds == {"account", "transaction", "block", "block_meta", "slot", "ping"}

\* an account update, by what convert_account_update and
\* parse_account_update make of it:
\*   missing      update.account is None
\*   bad_key      pubkey or owner is not 32 bytes long
\*   unsupported  the owner is not a program of program_metadata
\*   supported    the owner is one
AccountShapes == {"missing", "bad_key", "unsupported", "supported"}

\* transaction.meta of a transaction update: absent (or no transaction at
\* all), present with err = None, present with an err
MetaShapes == {"absent", "ok", "err"}

\* an inner instruction of meta.inner_instructions, by what
\* convert_instruction_update and parse_instruction_update make of it
InstrShapes == {"convert_err", "unsupported", "parsed"}

InstrSeqs == UNION {[1..n -> InstrShapes] : n \in 0..MaxInstr}

NoUpdate == [kind |-> "none", acct |-> "n/a", meta |-> "n/a", instrs |-> <<>>]

Updates ==
    {[kind |-> "account", acct |-> a, meta |-> "n/a", instrs |-> <<>>] :
        a \in AccountShapes}
    \cup {[kind |-> "transaction", acct |-> "n/a", meta |-> m,
           instrs |-> IF m = "absent" THEN <<>> ELSE q] :
            m \in MetaShapes, q \in InstrSeqs}
    \cup {[kind |-> k, acct |-> "n/a", meta |-> "n/a", instrs |-> <<>>] :
            k \in UpdateKinds \ {"account", "transaction"}}

\* convert_account_update
ConvertAccountUpdate(u) == IF u.acct \in {"missing", "bad_key"} THEN "Err" ELSE "Ok"

\* UnifiedParser::parse_account_update
ParseAccountUpdate(u) == IF u.acct = "supported" THEN "Some" ELSE "None"

\* process_update: Ok(Some(record)), Ok(None) or Err. An account update is
\* converted (an error leaves by `?`) and parsed. Of a transaction the inner
\* instructions of its meta are tried in turn and the first one that converts
\* and parses is returned; meta.err is not read.
ProcessUpdate(u) ==
    CASE u.kind = "account" ->
            IF ConvertAccountUpdate(u) = "Err"
            THEN [tag |-> "Err", collection |-> "none", index |-> 0]
            ELSE [tag |-> ParseAccountUpdate(u),
                  collection |-> IF ParseAccountUpdate(u) = "Some"
                                 THEN "account" ELSE "none",
                  index |-> 0]
      [] u.kind = "transaction" ->
            LET P == {i \in DOMAIN u.instrs : u.instrs[i] = "parsed"}
            IN  IF P = {} THEN [tag |-> "None", collection |-> "none", index |-> 0]
                ELSE [tag |-> "Some", collection |-> "instruction",
                      index |-> CHOOSE i \in P : \A j \in P : i <= j]
      [] OTHER -> [tag |-> "None", collection |-> "none", index |-> 0]

NoRecord == [id |-> 0, collection |-> "none", index |-> 0]

\* the match on process_update(update) in the receive loop: a record (its id
\* is Uuid::new_v4()) is pushed to the batch and sent on the bus and
\* stream_messages_processed is incremented; Ok(None) is logged; an Err is
\* logged and stream_messages_errors is incremented. The loop goes on.
ProcessStep(u, uuid) ==
    LET r == ProcessUpdate(u)
    IN  /\ r.tag = "Some" => messages_processed < MaxMessages
        /\ r.tag = "Err" => messages_errors < MaxMessages
        /\ proc_prev' = <<proc_in, proc_out>>
        /\ proc_in' = u
        /\ proc_out' = IF r.tag = "Some"
                       THEN [id |-> uuid, collection |-> r.collection, index |-> r.index]
                       ELSE NoRecord
        /\ messages_processed' = messages_processed + (IF r.tag = "Some" THEN 1 ELSE 0)
        /\ messages_errors' = messages_errors + (IF r.tag = "Err" THEN 1 ELSE 0)
        /\ UNCHANGED <<pipeVars, apiVars, redisVars, unifiedVars, busVars, prefVars, startVars, sseVars, metricsVars, healthVars, sourceVars, pageVars>>

(***************************************************************************)
(* filter_api.rs to_prefilter: a DynamicFilter made into the Prefilter of  *)
(* a subscription, and the feed's admission of a transaction under it      *)
(***************************************************************************)
\* the pubkeys filters and transactions name
Keys == {"A", "B", "C"}

\* the DynamicFilters that validate_filter accepts, by their four key sets
DynamicFilters ==
    [accounts : SUBSET {"A"}, owners : SUBSET {"B"},
     accounts_include : SUBSET Keys, accounts_required : SUBSET Keys]

NoPrefilter ==
    [accounts |-> {"none"}, account_owners |-> {"none"},
     transaction_accounts_include |-> {"none"}, transaction_accounts |-> {"none"}]

\* (mutant) the required accounts handed to the builder as included ones
ToPrefilterRequiredAsIncluded(d) ==
    [accounts |-> d.accounts,
     account_owners |-> d.owners,
     transaction_accounts_include |-> d.accounts_include \cup d.accounts_required,
     transaction_accounts |-> {}]

\* FilterManager::to_prefilter: each non-empty set is parsed and handed to
\* the builder method of its kind (an empty one leaves the builder's field
\* unset): accounts, account_owners, transaction_accounts_include, and
\* transaction_accounts for accounts_required
ToPrefilter(d) ==
    [accounts |-> d.accounts,
     account_owners |-> d.owners,
     transaction_accounts_include |-> d.accounts_include,
     transaction_accounts |-> d.accounts_required]

\* the admission of a transaction that references refs under a prefilter:
\* one of the accounts, owners or included transaction accounts is
\* referenced, and every required transaction account is
PrefilterAdmits(pf, refs) ==
    /\ (pf.accounts \cup pf.account_owners \cup pf.transaction_accounts_include)
          \cap refs # {}
    /\ pf.transaction_accounts \subseteq refs

\* to_prefilter is applied to the filter
ConvertFilter ==
    /\ prefilter = NoPrefilter
    /\ prefilter' = ToPrefilter(dyn_filter)
    /\ UNCHANGED <<dyn_filter, tx_refs, tx_admitted>>
    /\ UNCHANGED <<pipeVars, apiVars, redisVars, unifiedVars, busVars, procVars, startVars, sseVars, metricsVars, healthVars, sourceVars, pageVars>>

\* the feed meets a transaction that references refs
FeedTransaction(refs) ==
    /\ prefilter # NoPrefilter
    /\ tx_refs' = refs
    /\ tx_admitted' = PrefilterAdmits(prefilter, refs)
    /\ UNCHANGED <<dyn_filter, prefilter>>
    /\ UNCHANGED <<pipeVars, apiVars, redisVars, unifiedVars, busVars, procVars, startVars, sseVars, metricsVars, healthVars, sourceVars, pageVars>>

(***************************************************************************)
(* config.rs AppConfig::validate and main.rs SolanaStreamProcessor::new    *)
(***************************************************************************)
\* the AppConfigs, by the fields validate reads: whether the two strings
\* are empty, and the three sizes (usize)
AppConfigs ==
    [uri_empty : BOOLEAN, database_name_empty : BOOLEAN,
     buffer : 0..MaxSize, worker_threads : 0..MaxSize, batch : 0..MaxSize]

\* (mutant) validate without the check of worker_threads
ValidateNoWorkerCheck(c) ==
    IF c.uri_empty THEN "Database URI cannot be empty"
    ELSE IF c.database_name_empty THEN "Database name cannot be empty"
    ELSE IF c.buffer = 0 THEN "Buffer size must be greater than 0"
    ELSE IF c.batch = 0 THEN "Batch size must be greater than 0"
    ELSE "Ok"

\* AppConfig::validate: the first failing check returns its error
Validate(c) ==
    IF c.uri_empty THEN "Database URI cannot be empty"
    ELSE IF c.database_name_empty THEN "Database name cannot be empty"
    ELSE IF c.buffer = 0 THEN "Buffer size must be greater than 0"
    ELSE IF c.worker_threads = 0 THEN "Worker threads must be greater than 0"
    ELSE IF c.batch = 0 THEN "Batch size must be greater than 0"
    ELSE "Ok"

\* SolanaStreamProcessor::new up to its await: config.validate()?, then
\* Metrics::new(), then MongoHandler::new is called
NewValidate ==
    /\ new_pc = "validate"
    /\ IF Validate(app_config) = "Ok"
       THEN /\ new_pc' = "connect"
            /\ created' = created \cup {"metrics"}
       ELSE /\ new_pc' = "Err"
            /\ UNCHANGED created
    /\ UNCHANGED app_config
    /\ UNCHANGED <<pipeVars, apiVars, redisVars, unifiedVars, busVars, procVars, prefVars, sseVars, metricsVars, healthVars, sourceVars, pageVars>>

\* MongoHandler::new(..).await?: the connection is made or fails; after it
\* the parser and the stream handler are made and new returns Ok(Self)
NewConnect ==
    /\ new_pc = "connect"
    /\ \E ok \in BOOLEAN :
         IF ok
         THEN /\ new_pc' = "Ok"
              /\ created' = created \cup {"mongo_handler", "parser", "stream_handler"}
         ELSE /\ new_pc' = "Err"
              /\ UNCHANGED created
    /\ UNCHANGED app_config
    /\ UNCHANGED <<pipeVars, apiVars, redisVars, unifiedVars, busVars, procVars, prefVars, sseVars, metricsVars, healthVars, sourceVars, pageVars>>

(***************************************************************************)
(* web/sse.rs: SseManager, its channel and the stream of one client        *)
(***************************************************************************)
\* the receiver of the client, polled through BroadcastStream: Lagged when
\* more than the capacity behind, else the next item, else Closed when the
\* sender is gone, else nothing yet
SseRecv(tail, pos, open) ==
    IF tail - pos > SseBufferSize THEN "lagged"
    ELSE IF pos < tail THEN "item"
    ELSE IF ~open THEN "closed"
    ELSE "pending"

\* sender.send(event) by a publisher that took get_sender(): with no
\* receiver the event is given back; otherwise it is retained and the
\* receiver waiting on the channel is woken
SsePublish ==
    /\ sse_open
    /\ sse_tail < MaxPublished
    /\ IF sse_task = "none"
       THEN UNCHANGED <<sse_tail, sse_task, sse_waiting>>
       ELSE /\ sse_tail' = sse_tail + 1
            /\ sse_waiting' = FALSE
            /\ sse_task' = IF sse_waiting THEN "runnable" ELSE sse_task
    /\ UNCHANGED <<sse_pos, sse_out, sse_open>>
    /\ UNCHANGED <<pipeVars, apiVars, redisVars, unifiedVars, busVars, procVars, prefVars, startVars, metricsVars, healthVars, sourceVars, pageVars>>

\* create_stream: the client subscribes at the end of the channel and the
\* response body is polled for the first time
SseCreateStream ==
    /\ sse_task = "none"
    /\ sse_open
    /\ sse_task' = "runnable"
    /\ sse_pos' = sse_tail
    /\ UNCHANGED <<sse_tail, sse_waiting, sse_out, sse_open>>
    /\ UNCHANGED <<pipeVars, apiVars, redisVars, unifiedVars, busVars, procVars, prefVars, startVars, metricsVars, healthVars, sourceVars, pageVars>>

\* SseEventStream::poll_next, called when the task of the response is run.
\* An item is made an Event and returned, and the body is polled again; on
\* an Err the warning is written and Pending returned, the receiver having
\* returned Ready and so holding no waker; on None the stream ends; when the
\* receiver is pending its waker is with the channel
SsePollNext ==
    /\ sse_task = "runnable"
    /\ LET r == SseRecv(sse_tail, sse_pos, sse_open)
       IN CASE r = "item" ->
                 /\ sse_pos' = sse_pos + 1
                 /\ sse_out' = Append(sse_out, sse_pos + 1)
                 /\ UNCHANGED <<sse_task, sse_waiting>>
            [] r = "lagged" ->
                 /\ sse_pos' = sse_tail - SseBufferSize
                 /\ sse_task' = "parked"
                 /\ sse_waiting' = FALSE
                 /\ UNCHANGED sse_out
            [] r = "closed" ->
                 /\ sse_task' = "ended"
                 /\ UNCHANGED <<sse_pos, sse_out, sse_waiting>>
            [] OTHER ->
                 /\ sse_waiting' = TRUE
                 /\ sse_task' = "parked"
                 /\ UNCHANGED <<sse_pos, sse_out>>
    /\ UNCHANGED <<sse_tail, sse_open>>
    /\ UNCHANGED <<pipeVars, apiVars, redisVars, unifiedVars, busVars, procVars, prefVars, startVars, metricsVars, healthVars, sourceVars, pageVars>>

\* create_sse_response: the keep-alive timer of the response (30 s) runs the
\* task of a parked response, which polls the stream again
SseKeepAlive ==
    /\ sse_task = "parked"
    /\ sse_task' = "runnable"
    /\ UNCHANGED <<sse_tail, sse_pos, sse_waiting, sse_out, sse_open>>
    /\ UNCHANGED <<pipeVars, apiVars, redisVars, unifiedVars, busVars, procVars, prefVars, startVars, metricsVars, healthVars, sourceVars, pageVars>>

\* the client goes away: the response and with it the receiver is dropped
SseDisconnect ==
    /\ sse_task \in {"runnable", "parked"}
    /\ sse_task' = "none"
    /\ sse_waiting' = FALSE
    /\ sse_out' = <<>>
    /\ UNCHANGED <<sse_tail, sse_pos, sse_open>>
    /\ UNCHANGED <<pipeVars, apiVars, redisVars, unifiedVars, busVars, procVars, prefVars, startVars, metricsVars, healthVars, sourceVars, pageVars>>

\* the server state and every sender are dropped: a waiting receiver is woken
SseClose ==
    /\ sse_open
    /\ sse_open' = FALSE
    /\ sse_waiting' = FALSE
    /\ sse_task' = IF sse_waiting THEN "runnable" ELSE sse_task
    /\ UNCHANGED <<sse_tail, sse_pos, sse_out>>
    /\ UNCHANGED <<pipeVars, apiVars, redisVars, unifiedVars, busVars, procVars, prefVars, startVars, metricsVars, healthVars, sourceVars, pageVars>>

(***************************************************************************)
(* metrics.rs: the connection gauge and the three histories of Metrics,    *)
(* with stream_events of handlers/stream_handler.rs, the caller of the     *)
(* gauge                                                                   *)
(***************************************************************************)
\* the clients of GET /events/stream
SseClients == {"c1", "c2"}

\* the measurements recorded (duration.as_secs_f64())
Durations == {1, 2}

Histories == {"processing_latencies", "database_durations", "api_durations"}

\* (mutant) the drain takes the newest measurements away
RecordKeepOldest(h, d) ==
    LET pushed == Append(h, d)
    IN  IF Len(pushed) > HistoryLimit
        THEN SubSeq(pushed, 1, HistoryLimit)
        ELSE pushed

\* latencies.push(d); if len > 1000 { drain(0..(len - 1000)) }
Record(h, d) ==
    LET pushed == Append(h, d)
    IN  IF Len(pushed) > HistoryLimit
        THEN SubSeq(pushed, Len(pushed) - HistoryLimit + 1, Len(pushed))
        ELSE pushed

\* record_processing_latency, record_database_operation_duration and
\* record_api_request_duration: each takes the lock of its own history,
\* pushes and drains
RecordDuration(h, d) ==
    /\ Len(recorded[h]) < MaxRecorded
    /\ history' = [history EXCEPT ![h] = Record(@, d)]
    /\ recorded' = [recorded EXCEPT ![h] = Append(@, d)]
    /\ UNCHANGED <<stream_connections, connected>>
    /\ UNCHANGED <<pipeVars, apiVars, redisVars, unifiedVars, busVars, procVars, prefVars, startVars, sseVars, healthVars, sourceVars, pageVars>>

\* stream_events: a client connects, the gauge is incremented (fetch_add on
\* an AtomicU64) and the stream is handed to the response
StreamEvents(c) ==
    /\ c \notin connected
    /\ stream_connections < MaxConnects
    /\ stream_connections' = stream_connections + 1
    /\ connected' = connected \cup {c}
    /\ UNCHANGED <<history, recorded>>
    /\ UNCHANGED <<pipeVars, apiVars, redisVars, unifiedVars, busVars, procVars, prefVars, startVars, sseVars, healthVars, sourceVars, pageVars>>

\* the client goes away: the response and its stream are dropped. Nothing in
\* the stream runs on drop and decrement_stream_connections has no caller
StreamDropped(c) ==
    /\ c \in connected
    /\ connected' = connected \ {c}
    /\ UNCHANGED <<stream_connections, history, recorded>>
    /\ UNCHANGED <<pipeVars, apiVars, redisVars, unifiedVars, busVars, procVars, prefVars, startVars, sseVars, healthVars, sourceVars, pageVars>>

(***************************************************************************)
(* monitoring.rs: HealthCheckManager and the health check loop of          *)
(* MonitoringSystem. Time is in seconds.                                   *)
(***************************************************************************)
\* initialize_health_checks: the three checks and their check_interval_secs
CheckNames == {"chainstack_connection", "redis_connection", "data_processing"}

CheckIntervalSecs(name) ==
    CASE name = "chainstack_connection" -> 30
      [] name = "redis_connection" -> 15
      [] OTHER -> 60

\* the fields of MetricsCollector the checks read, from small sets that
\* reach each branch
MetricsReadings ==
    [connections_active : {0, 1}, connection_failures : {0, 6},
     redis_writes_total : {0, 9}, redis_write_failures : {0, 1, 9},
     updates_processed : {0, 99}, parse_errors : {0, 5, 99}]

\* ok / (ok + failed) > percent / 100, and 1.0 when nothing was counted
RateAbove(ok, failed, percent) ==
    IF ok + failed > 0 THEN 100 * ok > percent * (ok + failed) ELSE TRUE

\* the status a due check is given
CheckStatus(name, m) ==
    CASE name = "chainstack_connection" ->
           IF m.connections_active > 0 THEN "Healthy"
           ELSE IF m.connection_failures > 5 THEN "Unhealthy"
           ELSE "Degraded"
      [] name = "redis_connection" ->
           IF RateAbove(m.redis_writes_total, m.redis_write_failures, 95) THEN "Healthy"
           ELSE IF RateAbove(m.redis_writes_total, m.redis_write_failures, 80) THEN "Degraded"
           ELSE "Unhealthy"
      [] OTHER ->
           IF RateAbove(m.updates_processed, m.parse_errors, 98) THEN "Healthy"
           ELSE IF RateAbove(m.updates_processed, m.parse_errors, 90) THEN "Degraded"
           ELSE "Unhealthy"

\* the checks whose interval has passed at time t
Due(t) == {c \in CheckNames : ~(t - check_last[c] < CheckIntervalSecs(c))}

\* unhealthy_count, degraded_count and total_checks count the checks run in
\* this round
OverallOf(due, status) ==
    IF \E c \in due : status[c] = "Unhealthy" THEN "Unhealthy"
    ELSE IF \E c \in due : status[c] = "Degraded" THEN "Degraded"
    ELSE IF due # {} THEN "Healthy"
    ELSE "Unknown"

\* a tick of the loop with both locks taken: run_health_checks
RunHealthChecks ==
    /\ health_now < MaxHealthSecs
    /\ \E m \in MetricsReadings :
         LET t == health_now + HealthLoopSecs
             due == Due(t)
             status == [c \in CheckNames |->
                          IF c \in due THEN CheckStatus(c, m) ELSE check_status[c]]
         IN  /\ health_now' = t
             /\ check_status' = status
             /\ check_last' = [c \in CheckNames |-> IF c \in due THEN t ELSE check_last[c]]
             /\ overall_status' = OverallOf(due, status)
             /\ rounds' = rounds + 1
    /\ UNCHANGED <<pipeVars, apiVars, redisVars, unifiedVars, busVars, procVars, prefVars, startVars, sseVars, metricsVars, sourceVars, pageVars>>

\* a tick of the loop when try_write or try_read fails: nothing is run
HealthTickSkipped ==
    /\ health_now < MaxHealthSecs
    /\ health_now' = health_now + HealthLoopSecs
    /\ UNCHANGED <<check_status, check_last, overall_status, rounds>>
    /\ UNCHANGED <<pipeVars, apiVars, redisVars, unifiedVars, busVars, procVars, prefVars, startVars, sseVars, metricsVars, sourceVars, pageVars>>

(***************************************************************************)
(* lib.rs: the builder of ChainstackGrpcSource and the API key it connects *)
(* with                                                                    *)
(***************************************************************************)
ApiKeys == {"k1", "k2"}

PlaceholderKey == "your-chainstack-api-key"

\* the headers with_custom_headers is called with: the key header or another
HeaderNames == {"x-api-key", "x-region"}

HeaderValues(name) == IF name = "x-api-key" THEN ApiKeys ELSE {"r1"}

NoConfig == [present |-> FALSE, api_key |-> "", custom_headers |-> <<>>]

\* custom_headers.insert(name, value)
Insert(headers, name, value) ==
    [n \in DOMAIN headers \cup {name} |-> IF n = name THEN value ELSE headers[n]]

\* with_api_key: the key goes to the config when there is one, else to the
\* header "x-api-key"
WithApiKey(k) ==
    /\ builder_calls < MaxBuilderCalls
    /\ builder_calls' = builder_calls + 1
    /\ IF source_config.present
       THEN /\ source_config' = [source_config EXCEPT !.api_key = k]
            /\ UNCHANGED custom_headers
       ELSE /\ custom_headers' = Insert(custom_headers, "x-api-key", k)
            /\ UNCHANGED source_config
    /\ last_api_key' = k
    /\ UNCHANGED <<headers_called, x_token>>
    /\ UNCHANGED <<pipeVars, apiVars, redisVars, unifiedVars, busVars, procVars, prefVars, startVars, sseVars, metricsVars, healthVars, pageVars>>

\* with_custom_headers on one header
WithCustomHeaders(name, value) ==
    /\ builder_calls < MaxBuilderCalls
    /\ builder_calls' = builder_calls + 1
    /\ custom_headers' = Insert(custom_headers, name, value)
    /\ headers_called' = TRUE
    /\ UNCHANGED <<source_config, last_api_key, x_token>>
    /\ UNCHANGED <<pipeVars, apiVars, redisVars, unifiedVars, busVars, procVars, prefVars, startVars, sseVars, metricsVars, healthVars, pageVars>>

\* set_config_unchecked: the key is the header "x-api-key" or the
\* placeholder, and the headers are cloned into a new config
SetConfigUnchecked ==
    /\ builder_calls < MaxBuilderCalls
    /\ builder_calls' = builder_calls + 1
    /\ source_config' =
         [present |-> TRUE,
          api_key |-> IF "x-api-key" \in DOMAIN custom_headers
                      THEN custom_headers["x-api-key"] ELSE PlaceholderKey,
          custom_headers |-> custom_headers]
    /\ UNCHANGED <<custom_headers, last_api_key, headers_called, x_token>>
    /\ UNCHANGED <<pipeVars, apiVars, redisVars, unifiedVars, busVars, procVars, prefVars, startVars, sseVars, metricsVars, healthVars, pageVars>>

\* build_grpc_client, called by connect with the config: x_token is given
\* config.api_key
BuildGrpcClient ==
    /\ source_config.present
    /\ x_token' = source_config.api_key
    /\ UNCHANGED <<source_config, custom_headers, last_api_key, headers_called, builder_calls>>
    /\ UNCHANGED <<pipeVars, apiVars, redisVars, unifiedVars, busVars, procVars, prefVars, startVars, sseVars, metricsVars, healthVars, pageVars>>

(***************************************************************************)
(* filter_api.rs: the page arithmetic of the list_filters route. page and  *)
(* per_page are usize; the model keeps a usize of 0..UsizeMax.             *)
(***************************************************************************)
\* how the crate was built: overflow checks on (debug) or off (release)
Builds == {"debug", "release"}

PageQueries ==
    [page : 0..UsizeMax, per_page : 0..UsizeMax, total : 0..MaxTotal, build : Builds]

NoPage == [panicked |-> FALSE, start |-> 0, end |-> 0]

Min(a, b) == IF a < b THEN a ELSE b

\* an arithmetic result x in usize: in range it is x; out of range the
\* debug build panics and the release build wraps
Overflows(x) == x < 0 \/ x > UsizeMax

Wrapped(x) == x % (UsizeMax + 1)

\* let start = ((page - 1) * per_page).min(total);
\* let end = (start + per_page).min(total);
\* filters[start..end] (panics when start > end)
PageOf(q) ==
    LET minus == q.page - 1
        times == Wrapped(minus) * q.per_page
        start == Min(Wrapped(times), q.total)
        plus == start + q.per_page
        end == Min(Wrapped(plus), q.total)
    IN  IF q.build = "debug" /\ (Overflows(minus) \/ Overflows(times) \/ Overflows(plus))
        THEN [panicked |-> TRUE, start |-> 0, end |-> 0]
        ELSE IF start > end
        THEN [panicked |-> TRUE, start |-> start, end |-> end]
        ELSE [panicked |-> FALSE, start |-> start, end |-> end]

\* GET /filters with the query: the handler runs on a table of total filters
ListFiltersPage ==
    /\ ~page_done
    /\ page_done' = TRUE
    /\ page_out' = PageOf(page_query)
    /\ UNCHANGED page_query
    /\ UNCHANGED <<pipeVars, apiVars, redisVars, unifiedVars, busVars, procVars, prefVars, startVars, sseVars, metricsVars, healthVars, sourceVars>>

(***************************************************************************)
(* Specifications                                                          *)
(***************************************************************************)
InitPipe ==
    /\ max_attempts \in {0, MaxAttemptsCfg}
    /\ attempt = 1
    /\ sup_pc = "connect"
    /\ initial_delay = DefaultInitialDelay
    /\ max_delay = DefaultMaxDelay
    /\ delay = initial_delay
    /\ task_pc = [f \in FilterIds |-> "idle"]
    /\ client = [f \in FilterIds |-> "none"]
    /\ request = [f \in FilterIds |-> {}]
    /\ held = [f \in FilterIds |-> NoItem]
    /\ feed_pos = [f \in FilterIds |-> 0]
    /\ entered = [f \in FilterIds |-> <<>>]
    /\ fanin = <<>>
    /\ writer_pc = "recv"
    /\ batch = <<>>
    /\ store = <<>>

InitApi ==
    /\ active_filters = [f \in FilterIds |-> "absent"]
    /\ acked = [f \in FilterIds |-> "none"]
    /\ api_method = "none"
    /\ api_status = 0
    /\ now = 1
    /\ resp_updated_at = 0
    /\ seen = [f \in FilterIds |-> Fields("absent")]
    /\ auth_token = "none"
    /\ api_header = "absent"
    /\ api_path = "none"

\* RedisStreamManager::new: one StreamWriter per entry of config.streams
InitRedis ==
    /\ \E S \in SUBSET StreamNames :
         /\ batch_buffer = [name \in S |-> <<>>]
         /\ max_length \in [S -> {0, StreamMaxLength}]
    /\ redis_stream = [name \in StreamNames |-> <<>>]
    /\ redis_calls = 0
    /\ redis_ret = [op |-> "none", failed |-> "none"]

\* the parts that a specification leaves at rest
PipeIdle ==
    /\ max_attempts = 0
    /\ attempt = 1
    /\ sup_pc = "connect"
    /\ initial_delay = DefaultInitialDelay
    /\ max_delay = DefaultMaxDelay
    /\ delay = initial_delay
    /\ task_pc = [f \in FilterIds |-> "idle"]
    /\ client = [f \in FilterIds |-> "none"]
    /\ request = [f \in FilterIds |-> {}]
    /\ held = [f \in FilterIds |-> NoItem]
    /\ feed_pos = [f \in FilterIds |-> 0]
    /\ entered = [f \in FilterIds |-> <<>>]
    /\ fanin = <<>>
    /\ writer_pc = "recv"
    /\ batch = <<>>
    /\ store = <<>>

RedisIdle ==
    /\ batch_buffer = <<>>
    /\ max_length = <<>>
    /\ redis_stream = [name \in StreamNames |-> <<>>]
    /\ redis_calls = 0
    /\ redis_ret = [op |-> "none", failed |-> "none"]

ProcIdle ==
    /\ proc_in = NoUpdate
    /\ proc_out = NoRecord
    /\ proc_prev = <<NoUpdate, NoRecord>>
    /\ messages_processed = 0
    /\ messages_errors = 0

PrefilterIdle ==
    /\ dyn_filter = [accounts |-> {}, owners |-> {},
                     accounts_include |-> {}, accounts_required |-> {}]
    /\ prefilter = NoPrefilter
    /\ tx_refs = {}
    /\ tx_admitted = FALSE

\* a processor that was made from the default configuration
StartIdle ==
    /\ app_config = [uri_empty |-> FALSE, database_name_empty |-> FALSE,
                     buffer |-> 1, worker_threads |-> 1, batch |-> 1]
    /\ new_pc = "Ok"
    /\ created = {"metrics", "mongo_handler", "parser", "stream_handler"}

\* SseManager::new: the channel is created and its first receiver dropped
SseIdle ==
    /\ sse_tail = 0
    /\ sse_pos = 0
    /\ sse_waiting = FALSE
    /\ sse_task = "none"
    /\ sse_out = <<>>
    /\ sse_open = TRUE

\* Metrics::new
MetricsIdle ==
    /\ stream_connections = 0
    /\ connected = {}
    /\ history = [h \in Histories |-> <<>>]
    /\ recorded = [h \in Histories |-> <<>>]

\* HealthCheckManager::new and initialize_health_checks
HealthIdle ==
    /\ health_now = 0
    /\ check_status = [c \in CheckNames |-> "Unknown"]
    /\ check_last = [c \in CheckNames |-> 0]
    /\ overall_status = "Unknown"
    /\ rounds = 0

\* ChainstackGrpcSource::new
SourceIdle ==
    /\ source_config = NoConfig
    /\ custom_headers = <<>>
    /\ last_api_key = "none"
    /\ headers_called = FALSE
    /\ builder_calls = 0
    /\ x_token = "none"

\* no GET /filters was made
PageIdle ==
    /\ page_query = [page |-> 1, per_page |-> 1, total |-> 0, build |-> "release"]
    /\ page_out = NoPage
    /\ page_done = FALSE

SideIdle == ProcIdle /\ PrefilterIdle /\ StartIdle /\ SseIdle /\ MetricsIdle /\ HealthIdle /\ SourceIdle /\ PageIdle

InitUnified ==
    /\ handled = 0
    /\ mongo_tasks = {}
    /\ coll_docs = <<>>

\* StreamHandler::new: the channel is created and its first receiver dropped
InitBus ==
    /\ bus_tail = 0
    /\ sub_pos = [s \in Subs |-> -1]
    /\ sub_got = [s \in Subs |-> <<>>]
    /\ sub_lag = [s \in Subs |-> 0]

Init == InitPipe /\ InitApi /\ RedisIdle /\ InitUnified /\ InitBus /\ SideIdle

NextPipe ==
    \/ \E f \in FilterIds : TaskSubscribe(f)
    \/ \E f \in FilterIds : TaskNext(f)
    \/ \E f \in FilterIds : TaskStreamEnd(f)
    \/ \E f \in FilterIds : TaskSend(f)
    \/ \E f \in FilterIds : SupBuild(f)
    \/ SupJoin
    \/ SupWake
    \/ WriterRecv
    \/ WriterReturn

\* the ids the filter API is called with while the pipeline runs
ApiIds == {"f1"}

\* the predicates it is called with while the pipeline runs: valid ones that
\* differ from the source's
ApiPredicates == {"P2"}

NextApi ==
    \/ \E id \in ApiIds : \E p \in ApiPredicates : ApiCreate(id, p)
    \/ \E id \in ApiIds : \E p \in ApiPredicates : ApiUpdate(id, p)
    \/ \E id \in ApiIds : ApiDelete(id)

\* the filter API alone: every route over every id, readers beside the
\* writers, and the wall clock
NextFilterApi ==
    \/ \E id \in FilterIds : \E p \in Predicates : ApiCreate(id, p)
    \/ \E id \in FilterIds : \E p \in Predicates : ApiUpdate(id, p)
    \/ \E id \in FilterIds : ApiDelete(id)
    \/ ApiListFilters
    \/ \E t \in 1..MaxClock : ClockSet(t)

InitFilterApi == PipeIdle /\ InitApi /\ RedisIdle /\ InitUnified /\ InitBus /\ SideIdle

SpecFilterApi == InitFilterApi /\ [][NextFilterApi]_vars

\* the filter API of a server that was given an auth token
NextFilterAuth ==
    \/ \E id \in FilterIds : \E p \in ApiPredicates : ApiCreate(id, p)
    \/ \E id \in FilterIds : \E p \in ApiPredicates : ApiUpdate(id, p)
    \/ \E id \in FilterIds : ApiDelete(id)
    \/ ApiListFilters
    \/ ApiListTemplates
    \/ ApiHealth

InitFilterAuth ==
    /\ PipeIdle /\ RedisIdle /\ InitUnified /\ InitBus /\ SideIdle
    /\ active_filters = [f \in FilterIds |-> "absent"]
    /\ acked = [f \in FilterIds |-> "none"]
    /\ api_method = "none"
    /\ api_status = 0
    /\ now = 1
    /\ resp_updated_at = 0
    /\ seen = [f \in FilterIds |-> Fields("absent")]
    /\ auth_token = "token"
    /\ api_header = "absent"
    /\ api_path = "none"

SpecFilterAuth == InitFilterAuth /\ [][NextFilterAuth]_vars

\* the receive loop over the updates it may be given, one call in detail
NextProcessor == \E u \in Updates : \E uuid \in 1..MaxUuid : ProcessStep(u, uuid)

InitProcessor == PipeIdle /\ InitApi /\ RedisIdle /\ InitUnified /\ InitBus /\ SideIdle

SpecProcessor == InitProcessor /\ [][NextProcessor]_vars

\* to_prefilter on each filter, and the feed under the result
NextPrefilter == ConvertFilter \/ \E refs \in SUBSET Keys : FeedTransaction(refs)

InitPrefilter ==
    /\ PipeIdle /\ InitApi /\ RedisIdle /\ InitUnified /\ InitBus /\ ProcIdle
    /\ StartIdle /\ SseIdle /\ MetricsIdle /\ HealthIdle /\ SourceIdle /\ PageIdle
    /\ dyn_filter \in DynamicFilters
    /\ prefilter = NoPrefilter
    /\ tx_refs = {}
    /\ tx_admitted = FALSE

SpecPrefilter == InitPrefilter /\ [][NextPrefilter]_vars

\* the channel of SseManager, its publisher and one client of GET /events
NextSse ==
    \/ SsePublish
    \/ SseCreateStream
    \/ SsePollNext
    \/ SseKeepAlive
    \/ SseDisconnect
    \/ SseClose

InitSse == PipeIdle /\ InitApi /\ RedisIdle /\ InitUnified /\ InitBus /\ SideIdle

SpecSse == InitSse /\ [][NextSse]_vars

\* the Metrics of the process: its recorders and the SSE connections
NextMetrics ==
    \/ \E h \in Histories, d \in Durations : RecordDuration(h, d)
    \/ \E c \in SseClients : StreamEvents(c)
    \/ \E c \in SseClients : StreamDropped(c)

InitMetrics == PipeIdle /\ InitApi /\ RedisIdle /\ InitUnified /\ InitBus /\ SideIdle

SpecMetrics == InitMetrics /\ [][NextMetrics]_vars

\* the health check loop
NextHealth == RunHealthChecks \/ HealthTickSkipped

InitHealth == PipeIdle /\ InitApi /\ RedisIdle /\ InitUnified /\ InitBus /\ SideIdle

SpecHealth == InitHealth /\ [][NextHealth]_vars

\* the calls on a ChainstackGrpcSource before and at connect
NextSource ==
    \/ \E k \in ApiKeys : WithApiKey(k)
    \/ \E n \in HeaderNames : \E v \in HeaderValues(n) : WithCustomHeaders(n, v)
    \/ SetConfigUnchecked
    \/ BuildGrpcClient

InitSource == PipeIdle /\ InitApi /\ RedisIdle /\ InitUnified /\ InitBus /\ SideIdle

SpecSource == InitSource /\ [][NextSource]_vars

\* one GET /filters for each query, table size and build
NextPage == ListFiltersPage

InitPage ==
    /\ PipeIdle /\ InitApi /\ RedisIdle /\ InitUnified /\ InitBus
    /\ ProcIdle /\ PrefilterIdle /\ StartIdle /\ SseIdle /\ MetricsIdle /\ HealthIdle /\ SourceIdle
    /\ page_query \in PageQueries
    /\ page_out = NoPage
    /\ page_done = FALSE

SpecPage == InitPage /\ [][NextPage]_vars

\* SolanaStreamProcessor::new on each configuration
NextNew == NewValidate \/ NewConnect

InitNew ==
    /\ PipeIdle /\ InitApi /\ RedisIdle /\ InitUnified /\ InitBus
    /\ ProcIdle /\ PrefilterIdle /\ SseIdle /\ MetricsIdle /\ HealthIdle /\ SourceIdle /\ PageIdle
    /\ app_config \in AppConfigs
    /\ new_pc = "validate"
    /\ created = {}

SpecNew == InitNew /\ [][NextNew]_vars

\* the pipeline and the interrupt that ends the process
NextShutdown == NextPipe \/ Shutdown

SpecShutdown == Init /\ [][NextShutdown]_vars

\* the pipeline: reconnect task, subscription tasks, fan-in channel, receive loop
Spec == Init /\ [][NextPipe]_vars

\* the pipeline under the scheduler's fairness: a task that can run is run.
\* and a sleep ends. When the feed yields its next event or ends the stream
\* (TaskNext, TaskStreamEnd) is the environment's choice: no fairness.
FairSpec ==
    /\ Spec
    /\ \A f \in FilterIds :
         WF_vars(TaskSubscribe(f)) /\ WF_vars(TaskSend(f)) /\ WF_vars(SupBuild(f))
    /\ WF_vars(SupJoin)
    /\ WF_vars(SupWake)
    /\ WF_vars(WriterRecv)
    /\ WF_vars(WriterReturn)

\* the pipeline with the filter API served beside it
SpecFilters == Init /\ [][NextPipe \/ NextApi]_vars

\* a RedisStreamManager and its caller
NextRedis ==
    \/ \E t \in UpdateTypes : WriteUpdate(t)
    \/ FlushAll

InitRedisManager == PipeIdle /\ InitApi /\ InitRedis /\ InitUnified /\ InitBus /\ SideIdle

SpecRedis == InitRedisManager /\ [][NextRedis]_vars

\* a manager whose config.streams names the streams of the accounts and of
\* the transactions, each with a max_length
InitRedisTwoStreams ==
    /\ PipeIdle /\ InitApi /\ InitUnified /\ InitBus /\ SideIdle
    /\ batch_buffer = [name \in {"accounts", "transactions"} |-> <<>>]
    /\ max_length = [name \in {"accounts", "transactions"} |-> StreamMaxLength]
    /\ redis_stream = [name \in StreamNames |-> <<>>]
    /\ redis_calls = 0
    /\ redis_ret = [op |-> "none", failed |-> "none"]

SpecRedisTwoStreams == InitRedisTwoStreams /\ [][NextRedis]_vars

\* the reconnect loop with every configuration of ReconnectConfig
InitReconnect ==
    /\ max_attempts \in 0..MaxAttemptsChoice
    /\ initial_delay \in 1..MaxInitialDelay
    /\ max_delay \in 1..MaxDelayChoice
    /\ delay = initial_delay
    /\ attempt = 1
    /\ sup_pc = "connect"
    /\ task_pc = [f \in FilterIds |-> "idle"]
    /\ client = [f \in FilterIds |-> "none"]
    /\ request = [f \in FilterIds |-> {}]
    /\ held = [f \in FilterIds |-> NoItem]
    /\ feed_pos = [f \in FilterIds |-> 0]
    /\ entered = [f \in FilterIds |-> <<>>]
    /\ fanin = <<>>
    /\ writer_pc = "recv"
    /\ batch = <<>>
    /\ store = <<>>
    /\ InitApi /\ RedisIdle /\ InitUnified /\ InitBus /\ SideIdle

NextReconnect == ConnectErr \/ ConnectOk \/ SupWake

SpecReconnect == InitReconnect /\ [][NextReconnect]_vars

FairSpecReconnect == SpecReconnect /\ WF_vars(SupWake)

\* the broadcast channel, its publisher and the SSE connections
NextBus ==
    \/ PublishData
    \/ \E s \in Subs : SubSubscribe(s)
    \/ \E s \in Subs : SubRecv(s)
    \/ \E s \in Subs : SubDrop(s)

InitStreamHandler == PipeIdle /\ InitApi /\ RedisIdle /\ InitUnified /\ InitBus /\ SideIdle

SpecBus == InitStreamHandler /\ [][NextBus]_vars

\* a UnifiedHandler, its caller and the insert tasks it spawned
NextUnified ==
    \/ HandleInstructionData
    \/ \E t \in 1..MaxHandled : MongoInsertOne(t)

InitUnifiedHandler == PipeIdle /\ InitApi /\ RedisIdle /\ InitUnified /\ InitBus /\ SideIdle

SpecUnified == InitUnifiedHandler /\ [][NextUnified]_vars

(***************************************************************************)
(* Properties                                                              *)
(***************************************************************************)
\* this step appends a record of filter f to the fan-in channel
EntersChannel(f) == Len(entered'[f]) > Len(entered[f])

\* the last n elements of s
LastN(s, n) == SubSeq(s, Len(s) - n + 1, Len(s))

\* C1: once an update of an existing id is acknowledged, no record of that id
\* admitted under the predicate it replaced enters the fan-in channel.
\* (The task of the id admits under the filter it subscribed with.)
C1_NoStaleEmission ==
    [][\A f \in FilterIds :
         (acked[f] = "update" /\ active_filters[f] # SourceFilters[f])
            => ~EntersChannel(f)]_vars

\* C2: once the deletion of an id is acknowledged, no further record of that
\* id enters the fan-in channel.
C2_NoEmissionAfterDelete ==
    [][\A f \in FilterIds : acked[f] = "delete" => ~EntersChannel(f)]_vars

RECURSIVE SumLen(_, _)
\* total length of the buffers bufs[name], name in S
SumLen(bufs, S) ==
    IF S = {} THEN 0
    ELSE LET name == CHOOSE x \in S : TRUE
         IN Len(bufs[name]) + SumLen(bufs, S \ {name})

\* records queued or buffered between the feed and the stores: in the
\* channel, in the batch, in the stream writers' buffers, in pending inserts
InFlight ==
    Len(fanin) + Len(batch)
    + SumLen(batch_buffer, DOMAIN batch_buffer) + Cardinality(mongo_tasks)

\* C3: the records in flight never exceed the channel capacity plus one batch
\* in progress; no component of the pipeline grows beyond that.
C3_BoundedInFlight == InFlight <= buffer_size + batch_size

\* C4: a writer's in-memory buffer never holds more than batch_size records.
C4_BufferBound ==
    /\ Len(batch) <= batch_size
    /\ \A name \in DOMAIN batch_buffer : Len(batch_buffer[name]) <= batch_size

\* C5: a record waiting in a batch that is not full is committed when the
\* batch timeout has elapsed, even if the receive loop gets no further item:
\* the loop does not stay in recv with a non-empty batch for ever.
C5_TimeoutCommit ==
    [](writer_pc = "recv" /\ batch # <<>>
         => <>(batch = <<>> \/ writer_pc # "recv"))

\* C6: a failed commit does not drop the batch at once (it is retried first):
\* the step of the receive loop that makes the first commit attempt loses no
\* record of the batch; each is in the store or still in the batch after it.
C6_RetryBeforeDrop ==
    [][\A i \in 1..Len(batch) :
          \/ \E j \in 1..Len(store') : store'[j] = batch[i]
          \/ \E j \in 1..Len(batch') : batch'[j] = batch[i]]_vars

\* C7: when the channel is closed and the receive loop returns, no record is
\* left in the batch without a commit attempt.
C7_FlushOnClose == writer_pc = "returned" => batch = <<>>

\* C8: the records of a filter enter the fan-in channel in the order the feed
\* yielded them, and those still in the channel are the last that entered, in
\* that order.
C8_PerWorkerFifo ==
    \A f \in FilterIds :
        /\ Increasing(entered[f])
        /\ Len(SelectFilter(fanin, f)) <= Len(entered[f])
        /\ SelectFilter(fanin, f) = LastN(entered[f], Len(SelectFilter(fanin, f)))

C8_Witness ==
    /\ Len(entered["f1"]) >= 2
    /\ Len(entered["f2"]) >= 1
    /\ SelectFilter(fanin, "f1") # <<>>
    /\ SelectFilter(fanin, "f2") # <<>>

\* C9: the records of one worker take effect in the store in the order in
\* which they were handed over: the documents of the handler's collection are
\* in the order of the handle_instruction_data calls, and the records of one
\* filter are in the batch store in the order they entered the channel.
C9_StoreOrder ==
    /\ Increasing(coll_docs)
    /\ \A f \in FilterIds : Increasing(SelectFilter(store, f))

\* connect returned a build error: the JoinSet is dropped, its tasks aborted
ConnectAborts == sup_pc = "connect" /\ sup_pc' \in {"sleep", "stopped"}

\* C10: the channel never holds more than buffer_size items, and while it is
\* full a task that is sending stays in its send with its item and reads no
\* further event (it leaves the send only by being aborted with its connect).
C10_BlockingSend ==
    /\ [](Len(fanin) <= buffer_size)
    /\ [][\A f \in FilterIds :
            (task_pc[f] = "send" /\ Len(fanin) >= buffer_size)
              => \/ /\ task_pc'[f] = "send"
                    /\ held'[f] = held[f]
                    /\ feed_pos'[f] = feed_pos[f]
                 \/ ConnectAborts]_vars

C10_Witness ==
    /\ Len(fanin) = buffer_size
    /\ \E f \in FilterIds : task_pc[f] = "send" /\ held[f].kind = "update"

\* the state of one SSE connection
SubState(s) == <<sub_pos[s], sub_got[s], sub_lag[s]>>

\* s has a receiver that is more than the capacity behind
Lagging(s) == sub_pos[s] >= 0 /\ bus_tail - sub_pos[s] > BusCapacity

\* C11: publishing never blocks: publish_data can always take its step,
\* however far the subscribers are behind; a publish step changes no
\* subscriber, and a step of one subscriber changes neither the channel nor
\* any other subscriber.
C11_PublishNeverBlocks ==
    /\ [](bus_tail < MaxPublished => ENABLED PublishData)
    /\ [][bus_tail' # bus_tail => subVars' = subVars]_vars
    /\ [][\A s \in Subs : SubState(s)' # SubState(s)
            => /\ bus_tail' = bus_tail
               /\ \A t \in Subs \ {s} : SubState(t)' = SubState(t)]_vars

C11_Witness ==
    /\ \E s \in Subs : Lagging(s)
    /\ \E t \in Subs : sub_pos[t] = bus_tail /\ Len(sub_got[t]) > BusCapacity

C13_FailedWorkerReconnects ==
    \A f \in FilterIds : (task_pc[f] = "ended") ~> (task_pc[f] # "ended")

RECURSIVE Pow(_, _)
Pow(b, n) == IF n = 0 THEN 1 ELSE b * Pow(b, n - 1)

\* min(d0 * 2^(k-1), max_delay)
ExpectedDelay(k) ==
    IF initial_delay * Pow(2, k - 1) < max_delay
    THEN initial_delay * Pow(2, k - 1) ELSE max_delay

\* C14: the sleep after the k-th consecutive failed connect lasts
\* min(d0 * 2^(k-1), max_delay) within 10 per cent and never more than
\* max_delay; after a successful connect the delay is d0 again.
C14_BackoffDelay ==
    /\ sup_pc = "sleep"
         => /\ 10 * delay >= 9 * ExpectedDelay(attempt)
            /\ 10 * delay <= 11 * ExpectedDelay(attempt)
            /\ delay <= max_delay
    /\ (sup_pc = "connect" /\ attempt = 1) => delay = initial_delay

\* C15: with max_attempts = n > 0 the loop stops at the n-th consecutive
\* failed connect and not before; with max_attempts = 0 it never stops; a
\* failure that does not stop the loop is followed by another attempt.
C15_MaxAttempts ==
    /\ [](sup_pc = "stopped" => max_attempts > 0 /\ attempt = max_attempts)
    /\ [][(sup_pc = "connect" /\ sup_pc' = "sleep")
            => (max_attempts = 0 \/ attempt < max_attempts)]_vars
    /\ [](sup_pc = "sleep" => <>(sup_pc = "connect"))

C15_Witness == sup_pc = "stopped" /\ max_attempts = MaxAttemptsChoice

\* C16: a failure that concerns one worker does not tear down the session of
\* another: a task with an open session is not reset by the reconnect loop.
C16_OthersKeepRunning ==
    [][\A f \in FilterIds :
         task_pc[f] \in {"next", "send"} => task_pc'[f] # "idle"]_vars

\* C17: an upsert whose predicate names no account, no owner and no
\* transaction account, or names a string that is no pubkey, is rejected and
\* leaves the table as it was: the table never holds such an entry.
C17_RejectsEmptyOrInvalid ==
    \A f \in FilterIds : active_filters[f] \notin {"empty", "invalid"}

\* C18: what successive upserts answer is strictly increasing: the version
\* stamp in the answer to an upsert is greater than the one in the answer
\* to the upsert before it, whatever was removed in between.
C18_GenerationsIncrease ==
    [][resp_updated_at' # resp_updated_at => resp_updated_at' > resp_updated_at]_vars

\* C19: a reader of the table finds, for every id, one complete entry (or
\* none): the accounts and the owners it reads belong to the same predicate.
C19_ReadersSeeWholeEntries ==
    \A f \in FilterIds :
        seen[f][2] # "pending" =>
            \E p \in Predicates \cup {"absent"} : seen[f] = Fields(p)

\* a reader found the new entry of an id after an update replaced its old one
C19_Witness ==
    \E f \in FilterIds :
        /\ acked[f] = "update"
        /\ active_filters[f] = "P2"
        /\ seen[f] = Fields("P2")

\* C20: deleting an id that is not in the table answers 404 and leaves the
\* table unchanged; deleting an id that is in the table removes that entry
\* and no other.
C20_DeleteAnswers ==
    [][\A id \in FilterIds :
         /\ (active_filters[id] # "absent" /\ active_filters'[id] = "absent")
               => /\ active_filters' = [active_filters EXCEPT ![id] = "absent"]
                  /\ api_status' = 204
         /\ (/\ api_method' = "DELETE"
             /\ active_filters' = active_filters
             /\ <<api_method', api_status'>> # <<api_method, api_status>>)
               => api_status' = 404]_vars
\* an update that the default policy admits: an account update, or a
\* transaction whose meta is present with no error
Admitted(u) == u.kind = "account" \/ (u.kind = "transaction" /\ u.meta = "ok")

\* C21: a record reaches the sinks only for an account update or for a
\* transaction with meta present and no error; failed transactions,
\* transactions without meta and every other update kind produce none.
C21_OnlyVerifiedOrAccount == proc_out # NoRecord => Admitted(proc_in)

C27_OneWorkerPerInterest ==
    /\ sup_pc = "join" => \A f \in FilterIds : task_pc[f] # "idle"
    /\ \A f \in FilterIds :
          task_pc[f] # "idle" =>
             /\ request[f] = {f}
             /\ client[f] # "none"
             /\ \A g \in FilterIds \ {f} :
                   task_pc[g] # "idle" => client[g] # client[f]

\* connect has spawned the task of every filter and they read their streams
C27_Witness ==
    /\ sup_pc = "join"
    /\ \A f \in FilterIds : task_pc[f] = "next"

\* C28: on shutdown the workers exit first, then the channel is closed and
\* the writer drains it: when the process has exited, no record is left in
\* the fan-in channel or in the batch without a commit attempt.
C28_DrainOnShutdown ==
    writer_pc = "exited" =>
        /\ \A i \in DOMAIN fanin : fanin[i].kind # "update"
        /\ batch = <<>>

\* C23: classifying the same event twice gives equal records, id included:
\* when two calls in a row are given the same update and both give a record,
\* the two records are equal.
C23_SameEventSameRecord ==
    (proc_prev[1] = proc_in /\ proc_prev[2] # NoRecord /\ proc_out # NoRecord)
        => proc_prev[2] = proc_out

\* C24: every append the writer issues to the stream-store carries a
\* max-length trim request (MAXLEN ~ N).
C24_EveryAppendTrims ==
    \A name \in StreamNames :
        \A i \in 1..Len(redis_stream[name]) : redis_stream[name][i].maxlen > 0

\* C25: a batch commit is one atomic append: the store grows by all the
\* records of the batch at hand or by none.
C25_AtomicCommit ==
    [][store' # store =>
         \E b \in Pushed(Head(fanin)) : \E first \in Collections :
            store' = store \o StoreParsedDataBatch(b, first, TRUE, TRUE)]_vars

C29_ValidateConfig ==
    LET valid == /\ ~app_config.uri_empty
                 /\ ~app_config.database_name_empty
                 /\ app_config.buffer > 0
                 /\ app_config.worker_threads > 0
                 /\ app_config.batch > 0
    IN  new_pc # "validate" =>
          /\ valid => new_pc \in {"connect", "Ok"} \/ "metrics" \in created
          /\ ~valid => new_pc = "Err" /\ created = {}

\* new was given a configuration whose only fault is worker_threads = 0 and
\* has returned the error
C29_Witness ==
    /\ new_pc = "Err"
    /\ created = {}
    /\ app_config.worker_threads = 0
    /\ ~app_config.uri_empty /\ ~app_config.database_name_empty
    /\ app_config.buffer > 0 /\ app_config.batch > 0
\* C30: after the receiver of an SSE client reported a lag, the stream
\* goes on by itself: whenever the client's task is parked, its waker is
\* with the channel, so that the next published event runs it.
C30_ContinuesAfterLag ==
    sse_task = "parked" => sse_waiting
\* C31: the gauge stream_connections_active equals the number of clients
\* connected to the SSE endpoint.
C31_GaugeCountsClients ==
    stream_connections = Cardinality(connected)

\* C32: each history holds at most the limit of measurements, and they are
\* the most recently recorded ones in recording order.
C32_HistoryKeepsNewest ==
    \A h \in Histories :
      LET n == Len(recorded[h])
          k == IF n > HistoryLimit THEN HistoryLimit ELSE n
      IN  /\ Len(history[h]) = k
          /\ history[h] = SubSeq(recorded[h], n - k + 1, n)

\* a history that was given more than the limit and has drained
C32_Witness ==
    \E h \in Histories :
      /\ Len(recorded[h]) > HistoryLimit
      /\ recorded[h][1] # recorded[h][Len(recorded[h])]
      /\ Len(history[h]) = HistoryLimit
\* C33: after every round, overall_status is Unhealthy if any check has
\* status Unhealthy, else Degraded if any has status Degraded, else Healthy;
\* a check not due in the round counts with its last status, and the
\* overall status is Unknown only while no check has ever run.
C33_OverallFromAllChecks ==
    rounds > 0 =>
      overall_status =
        IF \E c \in CheckNames : check_status[c] = "Unhealthy" THEN "Unhealthy"
        ELSE IF \E c \in CheckNames : check_status[c] = "Degraded" THEN "Degraded"
        ELSE IF \E c \in CheckNames : check_status[c] # "Unknown" THEN "Healthy"
        ELSE "Unknown"
\* C34: after with_api_key and set_config_unchecked calls only, the key a
\* client is built with is the key of the most recent with_api_key, and the
\* placeholder only if with_api_key was never called.
C34_LatestKeyConnects ==
    (source_config.present /\ ~headers_called) =>
      source_config.api_key = IF last_api_key = "none" THEN PlaceholderKey ELSE last_api_key
\* C35: when connect returns an error, no task of it sends on the channel
\* any more, and connect returns Ok only when every task it spawned has
\* ended.
C35_ErrorStopsWorkers ==
    /\ [][ConnectAborts => fanin' = fanin]_vars
    /\ [][(sup_pc = "join" /\ sup_pc' = "connect") =>
            \A f \in FilterIds : task_pc[f] = "ended"]_vars
\* the entry of the write_update call that was made last is in s
HoldsLastEntry(s, name) ==
    \E i \in 1..Len(s) :
        s[i].n = redis_calls /\ DetermineStreamName(s[i].update_type) = name

\* C36: when write_update returns Ok, the entry is in the batch buffer of
\* the stream of its update type or has been committed to that stream.
C36_OkMeansKept ==
    (redis_ret.op = "write_update" /\ redis_ret.failed = "none") =>
      \E name \in StreamNames :
        \/ name \in DOMAIN batch_buffer /\ HoldsLastEntry(batch_buffer[name], name)
        \/ HoldsLastEntry(redis_stream[name], name)

\* C37: a failed flush leaves the buffer of its stream as it was (with the
\* entry write_update has just added), a successful flush empties it, and
\* flush_all returns Ok only if every buffer is empty afterwards.
C37_FlushKeepsOrEmpties ==
    /\ [](redis_ret = [op |-> "flush_all", failed |-> "none"]
            => \A name \in DOMAIN batch_buffer : batch_buffer[name] = <<>>)
    /\ [][\A name \in DOMAIN batch_buffer :
            redis_calls' # redis_calls =>
              IF redis_ret'.failed = name
              THEN \/ /\ redis_ret'.op = "flush_all"
                      /\ batch_buffer'[name] = batch_buffer[name]
                   \/ /\ redis_ret'.op = "write_update"
                      /\ Len(batch_buffer'[name]) = Len(batch_buffer[name]) + 1
                      /\ SubSeq(batch_buffer'[name], 1, Len(batch_buffer[name]))
                           = batch_buffer[name]
              ELSE \/ batch_buffer'[name] = <<>>
                   \/ batch_buffer'[name] = batch_buffer[name]
                   \/ /\ redis_ret'.op = "write_update"
                      /\ Len(batch_buffer'[name]) < batch_size
                      /\ SubSeq(batch_buffer'[name], 1, Len(batch_buffer[name]))
                           = batch_buffer[name]]_vars

\* flush_all has failed on a stream whose buffer held entries, and the
\* buffer holds them still
C37_Witness ==
    /\ redis_ret.op = "flush_all"
    /\ redis_ret.failed \in DOMAIN batch_buffer
    /\ batch_buffer[redis_ret.failed] # <<>>
    /\ \E name \in DOMAIN batch_buffer : name # redis_ret.failed /\ batch_buffer[name] = <<>>
\* C39: listing with any page >= 0 and per_page >= 0 does not panic or
\* overflow; it takes the slice [start, end) with
\* start = min((page-1)*per_page, total) and end = min(start+per_page, total),
\* which holds at most per_page filters.
C39_PagingTotal ==
    page_done =>
      /\ ~page_out.panicked
      /\ page_out.start = Min((page_query.page - 1) * page_query.per_page, page_query.total)
      /\ page_out.end = Min(page_out.start + page_query.per_page, page_query.total)
      /\ page_out.end - page_out.start <= page_query.per_page
\* C38: with a token configured, a request to a filter or template
\* endpoint that does not carry "Bearer <token>" is answered 401 and leaves
\* the table as it was; the health endpoint is served without the token.
C38_TokenRequired ==
    [][auth_token # "none" =>
         /\ (api_path' \in {"/filters", "/filters/{id}", "/templates"}
               /\ api_header' # "exact")
              => (api_status' = 401 /\ active_filters' = active_filters)
         /\ api_path' = "/health" => api_status' = 200]_vars
\* C40: once the reconnect loop has stopped and no subscription task holds a
\* sender, the channel is closed: nothing enters it any more, the queued
\* records leave it only from its head into the receive loop, the loop always
\* has its next step (a record, or the end of the channel once it is empty),
\* and it returns only from the empty closed channel. Each step shortens the
\* queue, so the loop returns after Len(fanin) + 1 steps.
C40_ClosedChannelDrains ==
    /\ [](writer_pc = "returned" => (SendersDropped /\ fanin = <<>>))
    /\ []((SendersDropped /\ writer_pc = "recv") =>
             /\ fanin # <<>> => ENABLED WriterRecv
             /\ fanin = <<>> => ENABLED WriterReturn)
    /\ [][SendersDropped =>
            /\ SendersDropped'
            /\ \/ fanin' = fanin /\ (fanin = <<>> \/ writer_pc' = writer_pc)
               \/ (writer_pc = "recv" /\ fanin # <<>> /\ fanin' = Tail(fanin)
                     /\ writer_pc' = "recv")]_vars

\* the reconnect loop has stopped with records still queued for the receive loop
C40_Witness ==
    /\ SendersDropped
    /\ max_attempts > 0
    /\ fanin # <<>>
    /\ writer_pc = "recv"

====
